---- MODULE Spec2Model ----
(***************************************************************************)
(* A model of the GitHub API v3 client of travis-deps (package github):   *)
(* the GitHubClient configuration holder, the shared plumbing (createUrl, *)
(* AssertMapString(s), getLimits, json.Unmarshal as the methods use it)   *)
(* and the endpoint methods, each as one action that runs the whole       *)
(* method against a stubbed transport.                                     *)
(*                                                                         *)
(* Text that the code inspects character by character (paths, tokens, map *)
(* values, header values) is a sequence of one-character strings.  Text   *)
(* that the code only passes along (error messages, status lines, JSON    *)
(* field values) is a TLA+ string, and a concatenation of such texts is   *)
(* the sequence of its pieces.                                             *)
(***************************************************************************)
EXTENDS Integers, Sequences, FiniteSets, TLC

VARIABLES
    CallsLimit,      \* GitHubClient.CallsLimit
    CallsRemaining,  \* GitHubClient.CallsRemaining
    Token,           \* GitHubClient.Token
    Login,           \* GitHubClient.Login
    method,          \* the name of the last function or method that ran
    input,           \* its arguments, and what the stubbed transport answered
    output,          \* what it returned
    bodies,          \* the body of each response it obtained: "open" or "closed"
    sent,            \* the HTTP requests it issued, in order
    running,         \* the calls in progress: where each is in getLimits, and its locals
    program          \* the travis-deps command: its configuration, its place in the loop, its log

vars == <<CallsLimit, CallsRemaining, Token, Login, method, input, output, sent, bodies, running, program>>

----------------------------------------------------------------------------
(* Bounds of the model.                                                    *)

\* longest value stored in a urlData map
MaxValLen == 1
\* longest key list handed to AssertMapStrings
MaxKeys == 2
\* longest rate-limit header value
MaxHdrLen == 2
\* longest access token
MaxTokenLen == 2
\* longest path handed to createUrl
MaxPathLen == 2
\* longest key or value of a getData map
MaxOptLen == 2
\* most entries of a getData map
MaxOpts == 2
\* most nested UnmarshalJSON frames the goroutine stack holds
MaxStack == 3
\* longest free-form field value handed to a create method
MaxFieldLen == 2

----------------------------------------------------------------------------
(* Text helpers.                                                           *)

\* all sequences over alphabet of length at most n
RECURSIVE Strs(_, _)
Strs(alphabet, n) ==
    IF n = 0 THEN {<<>>}
    ELSE LET shorter == Strs(alphabet, n - 1)
         IN  shorter \cup {Append(s, c) : s \in {t \in shorter : Len(t) = n - 1}, c \in alphabet}

\* all maps from a subset of keys to values
Maps(keys, values) == UNION {[d -> values] : d \in SUBSET keys}

\* Go's m[key] on a map[string]string: the zero value "" when key is absent
Lookup(m, key) == IF key \in DOMAIN m THEN m[key] ELSE <<>>

\* unicode.IsSpace on the Latin-1 range, as strings.TrimSpace uses it
WhiteSpace == {" ", "\t", "\n", "\r"}

RECURSIVE TrimLeft(_)
TrimLeft(s) ==
    IF s # <<>> /\ Head(s) \in WhiteSpace THEN TrimLeft(Tail(s)) ELSE s

RECURSIVE TrimRight(_)
TrimRight(s) ==
    IF s # <<>> /\ s[Len(s)] \in WhiteSpace THEN TrimRight(SubSeq(s, 1, Len(s) - 1)) ELSE s

\* strings.TrimSpace
TrimSpace(s) == TrimRight(TrimLeft(s))

\* strings.Index(s, c) for a one-character c: 0-based position, or -1
StringsIndex(s, c) ==
    IF \E i \in 1..Len(s) : s[i] = c
    THEN (CHOOSE i \in 1..Len(s) : s[i] = c /\ \A j \in 1..(i - 1) : s[j] # c) - 1
    ELSE -1

Digits == <<"0", "1", "2", "3", "4", "5", "6", "7", "8", "9">>

IsDigit(c) == \E d \in 1..10 : Digits[d] = c

DigitVal(c) == (CHOOSE d \in 1..10 : Digits[d] = c) - 1

RECURSIVE ParseUint(_, _)
\* the digit loop of strconv.ParseUint(s, 10, _): acc is the value so far
ParseUint(s, acc) ==
    IF s = <<>> THEN [ok |-> TRUE, val |-> acc]
    ELSE IF ~IsDigit(Head(s)) THEN [ok |-> FALSE, val |-> 0]
    ELSE ParseUint(Tail(s), acc * 10 + DigitVal(Head(s)))

\* strconv.ParseInt(s, 10, 0): an optional sign, then at least one decimal
\* digit.  Every value of at most MaxHdrLen + 1 digits fits an int, so the
\* range error does not arise here.
ParseInt(s) ==
    IF s = <<>> THEN [ok |-> FALSE, val |-> 0]
    ELSE LET signed == Head(s) \in {"+", "-"}
             digits == IF signed THEN Tail(s) ELSE s
             u      == ParseUint(digits, 0)
         IN  IF digits = <<>> \/ ~u.ok THEN [ok |-> FALSE, val |-> 0]
             ELSE [ok |-> TRUE, val |-> IF Head(s) = "-" THEN 0 - u.val ELSE u.val]

----------------------------------------------------------------------------
(* url.QueryEscape.                                                        *)

Letters ==
    {"a", "b", "c", "d", "e", "f", "g", "h", "i", "j", "k", "l", "m",
     "n", "o", "p", "q", "r", "s", "t", "u", "v", "w", "x", "y", "z",
     "A", "B", "C", "D", "E", "F", "G", "H", "I", "J", "K", "L", "M",
     "N", "O", "P", "Q", "R", "S", "T", "U", "V", "W", "X", "Y", "Z"}

\* the bytes net/url never escapes in a query component
Unreserved == Letters \cup {Digits[d] : d \in 1..10} \cup {"-", "_", ".", "~"}

\* the ASCII code of the punctuation the model's alphabets hold
Ord(c) ==
    CASE c = " " -> 32
      [] c = "%" -> 37
      [] c = "&" -> 38
      [] c = "+" -> 43
      [] c = "/" -> 47
      [] c = "=" -> 61
      [] c = "?" -> 63

UpperHex == <<"0", "1", "2", "3", "4", "5", "6", "7", "8", "9", "A", "B", "C", "D", "E", "F">>

\* one byte, as url.QueryEscape writes it
EscapeChar(c) ==
    IF c \in Unreserved THEN <<c>>
    ELSE IF c = " " THEN <<"+">>
    ELSE <<"%", UpperHex[(Ord(c) \div 16) + 1], UpperHex[(Ord(c) % 16) + 1]>>

RECURSIVE QueryEscape(_)
QueryEscape(s) ==
    IF s = <<>> THEN <<>> ELSE EscapeChar(Head(s)) \o QueryEscape(Tail(s))

----------------------------------------------------------------------------
(* The configuration holder and the plumbing.                              *)

APIURL == <<"h","t","t","p","s",":","/","/","a","p","i",".","g","i","t","h","u","b",".","c","o","m">>

\* the CallsLimit and CallsRemaining of a new client
InitialCalls == 5000

\* the session of the travis-deps program: client := NewGitHubClient(conf.Token, "qiniu")
SessionLogin == <<"q","i","n","i","u">>

\* a token with a byte that QueryEscape rewrites
SessionToken == <<"t", "0", "+">>

createUrl_AlwaysQuestionMark(token, path) ==
    APIURL \o path \o <<"?">> \o <<"a","c","c","e","s","s","_","t","o","k","e","n","=">> \o QueryEscape(token)

\* GitHubClient.createUrl, as a function of github.Token and path
createUrl(token, path) ==
    IF StringsIndex(path, "?") = -1
    THEN APIURL \o path \o <<"?">> \o <<"a","c","c","e","s","s","_","t","o","k","e","n","=">> \o QueryEscape(token)
    ELSE APIURL \o path \o <<"&">> \o <<"a","c","c","e","s","s","_","t","o","k","e","n","=">> \o QueryEscape(token)

AssertMapString_PresenceOnly(key, m) == key \in DOMAIN m

\* GitHubClient.AssertMapString
AssertMapString(key, m) ==
    IF key \in DOMAIN m /\ Len(TrimSpace(m[key])) # 0 THEN TRUE ELSE FALSE

\* GitHubClient.AssertMapStrings: the loop returns false only at a key that
\* is absent (!ok) and whose looked-up value, trimmed, is not "".
AssertMapStrings(s, m) ==
    \A i \in 1..Len(s) :
        ~(~(s[i] \in DOMAIN m) /\ TrimSpace(Lookup(m, s[i])) # <<>>)

\* http.Header.Get: "" when the header is absent
HeaderGet(header, name) == Lookup(header, name)

getLimits_RemainingFirst(calls, res) ==
    LET remain == ParseInt(HeaderGet(res.Header, "X-RateLimit-Remaining"))
        limit  == ParseInt(HeaderGet(res.Header, "X-RateLimit-Limit"))
    IN  IF ~remain.ok THEN calls
        ELSE IF ~limit.ok THEN [calls EXCEPT !.CallsRemaining = remain.val]
        ELSE [CallsRemaining |-> remain.val, CallsLimit |-> limit.val]

\* GitHubClient.getLimits, as a function of the two counters and the response
getLimits(calls, res) ==
    LET remain == ParseInt(HeaderGet(res.Header, "X-RateLimit-Remaining"))
        limit  == ParseInt(HeaderGet(res.Header, "X-RateLimit-Limit"))
    IN  IF ~remain.ok THEN calls
        ELSE IF ~limit.ok THEN calls
        ELSE [CallsRemaining |-> remain.val, CallsLimit |-> limit.val]

\* the two counters of the client, as getLimits reads and writes them
Calls == [CallsRemaining |-> CallsRemaining, CallsLimit |-> CallsLimit]

\* github.NewGitHubClient(token, login)
NewGitHubClient(token, login) ==
    /\ Token = token
    /\ Login = login
    /\ CallsLimit = InitialCalls
    /\ CallsRemaining = InitialCalls

\* the calls that can be in progress at once
Goroutines == {1, 2}

\* no call is inside getLimits
NoneRunning == [g \in Goroutines |-> [pc |-> "idle", remain |-> 0, limit |-> 0]]

\* nothing has run yet
\* the travis-deps command has not been started
NotStarted == [pc |-> "none", Deps |-> <<>>, i |-> 0, log |-> <<>>, wire |-> <<>>]

Idle ==
    /\ method = "none"
    /\ input = <<>>
    /\ output = <<>>
    /\ sent = <<>>
    /\ bodies = <<>>
    /\ running = NoneRunning
    /\ program = NotStarted

----------------------------------------------------------------------------
(* The validators, applied to bounded inputs.                              *)

MapKeys == {"repo", "number", "user"}

\* the values a urlData map holds: blank ones and a non-blank one
MapValues == Strs({" ", "r"}, MaxValLen)

KeyLists == Strs(MapKeys, MaxKeys)

InitAssert == NewGitHubClient(SessionToken, SessionLogin) /\ Idle

\* the caller is done with what the last call returned: only the client stays
CallerContinues ==
    /\ method # "none"
    /\ method' = "none"
    /\ input' = <<>>
    /\ output' = <<>>
    /\ sent' = <<>>
    /\ bodies' = <<>>
    /\ UNCHANGED <<CallsLimit, CallsRemaining, Token, Login, running, program>>

AssertMapStringCall ==
    /\ method = "none"
    /\ \E key \in MapKeys, m \in Maps(MapKeys, MapValues) :
           /\ method' = "AssertMapString"
           /\ input' = [key |-> key, m |-> m]
           /\ output' = AssertMapString(key, m)
    /\ UNCHANGED <<CallsLimit, CallsRemaining, Token, Login, sent, bodies, running, program>>

AssertMapStringsCall ==
    /\ method = "none"
    /\ \E s \in KeyLists, m \in Maps(MapKeys, MapValues) :
           /\ method' = "AssertMapStrings"
           /\ input' = [s |-> s, m |-> m]
           /\ output' = AssertMapStrings(s, m)
    /\ UNCHANGED <<CallsLimit, CallsRemaining, Token, Login, sent, bodies, running, program>>

NextAssert == AssertMapStringCall \/ AssertMapStringsCall \/ CallerContinues

SpecAssert == InitAssert /\ [][NextAssert]_vars

\* C3: AssertMapStrings(S, m) is true exactly when every key of S is present
\* in m with a value that is non-empty after trimming: it equals the
\* conjunction of AssertMapString(k, m) over the keys k of S.
C3_AssertMapStringsIsConjunction ==
    method = "AssertMapStrings" =>
        (output = TRUE <=>
            \A i \in 1..Len(input.s) :
                /\ input.s[i] \in DOMAIN input.m
                /\ \E j \in 1..Len(input.m[input.s[i]]) :
                       input.m[input.s[i]][j] \notin WhiteSpace)

----------------------------------------------------------------------------
(* getLimits, applied to bounded responses.                                *)

HeaderValues == Strs({"5", "x", "-"}, MaxHdrLen)

\* the header sets a response can carry: each rate-limit header absent or present
LimitHeaders == Maps({"X-RateLimit-Remaining", "X-RateLimit-Limit"}, HeaderValues)

InitLimits == NewGitHubClient(SessionToken, SessionLogin) /\ Idle

getLimitsCall ==
    /\ method = "none"
    /\ \E header \in LimitHeaders :
           LET res   == [Header |-> header]
               after == getLimits(Calls, res)
           IN  /\ method' = "getLimits"
               /\ input' = [res |-> res]
               /\ output' = <<>>
               /\ CallsRemaining' = after.CallsRemaining
               /\ CallsLimit' = after.CallsLimit
    /\ UNCHANGED <<Token, Login, sent, bodies, running, program>>

NextLimits == getLimitsCall \/ CallerContinues

SpecLimits == InitLimits /\ [][NextLimits]_vars

\* a decimal integer in text: an optional sign and at least one digit
IsInteger(s) ==
    LET body == IF s # <<>> /\ s[1] \in {"+", "-"} THEN SubSeq(s, 2, Len(s)) ELSE s
    IN  /\ body # <<>>
        /\ \A i \in 1..Len(body) : body[i] \in {"0", "1", "2", "3", "4", "5", "6", "7", "8", "9"}

RECURSIVE Pow10(_)
Pow10(n) == IF n = 0 THEN 1 ELSE 10 * Pow10(n - 1)

RECURSIVE PositionalSum(_, _)
PositionalSum(body, i) ==
    IF i > Len(body) THEN 0
    ELSE DigitVal(body[i]) * Pow10(Len(body) - i) + PositionalSum(body, i + 1)

\* the number an IsInteger text denotes
IntegerValue(s) ==
    LET body == IF s[1] \in {"+", "-"} THEN SubSeq(s, 2, Len(s)) ELSE s
    IN  IF s[1] = "-" THEN 0 - PositionalSum(body, 1) ELSE PositionalSum(body, 1)

\* C8: getLimits on a response whose X-RateLimit-Remaining and
\* X-RateLimit-Limit are both integers sets CallsRemaining and CallsLimit to
\* those two values; when either header is missing or not a number it
\* leaves both counters as they were.
C8_getLimitsBothOrNeither ==
    [][method' = "getLimits" =>
        LET remaining == HeaderGet(input'.res.Header, "X-RateLimit-Remaining")
            limit     == HeaderGet(input'.res.Header, "X-RateLimit-Limit")
        IN  IF IsInteger(remaining) /\ IsInteger(limit)
            THEN /\ CallsRemaining' = IntegerValue(remaining)
                 /\ CallsLimit' = IntegerValue(limit)
            ELSE /\ CallsRemaining' = CallsRemaining
                 /\ CallsLimit' = CallsLimit]_vars

\* getLimits ran on a response with both headers numeric and the counters
\* hold its two (different) values
C8_Witness_Updated ==
    /\ method = "getLimits"
    /\ input.res.Header = [h \in {"X-RateLimit-Remaining", "X-RateLimit-Limit"} |->
                              IF h = "X-RateLimit-Limit" THEN <<"5", "5">> ELSE <<"5">>]
    /\ CallsRemaining = 5
    /\ CallsLimit = 55

----------------------------------------------------------------------------
(* getLimits, run by two calls at once on the same client.  The client's   *)
(* fields are written without a lock, one assignment after the other.      *)

\* the rate-limit headers of the two responses
ConcurrentHeaders ==
    {[h \in {"X-RateLimit-Remaining", "X-RateLimit-Limit"} |->
          IF h = "X-RateLimit-Remaining" THEN remaining ELSE limit] :
        remaining \in {<<"5">>, <<"7">>, <<"x">>}, limit \in {<<"6">>, <<"8">>, <<"x">>}}

InitRace == NewGitHubClient(SessionToken, SessionLogin) /\ Idle

\* two endpoint calls have each received their response and enter getLimits
BeginCalls ==
    /\ method = "none"
    /\ \E first \in ConcurrentHeaders, second \in ConcurrentHeaders :
           input' = <<[res |-> [Header |-> first]], [res |-> [Header |-> second]]>>
    /\ method' = "concurrent"
    /\ running' = [g \in Goroutines |-> [pc |-> "remain", remain |-> 0, limit |-> 0]]
    /\ UNCHANGED <<CallsLimit, CallsRemaining, Token, Login, output, sent, bodies, program>>

\* remain, err := strconv.ParseInt(res.Header.Get("X-RateLimit-Remaining"), 10, 0)
ParseRemaining(g) ==
    /\ running[g].pc = "remain"
    /\ LET remain == ParseInt(HeaderGet(input[g].res.Header, "X-RateLimit-Remaining"))
       IN  running' = [running EXCEPT ![g] =
                          IF remain.ok THEN [@ EXCEPT !.pc = "limit", !.remain = remain.val]
                          ELSE [@ EXCEPT !.pc = "done"]]
    /\ UNCHANGED <<CallsLimit, CallsRemaining, Token, Login, method, input, output, sent, bodies, program>>

\* limit, err := strconv.ParseInt(res.Header.Get("X-RateLimit-Limit"), 10, 0)
ParseLimit(g) ==
    /\ running[g].pc = "limit"
    /\ LET limit == ParseInt(HeaderGet(input[g].res.Header, "X-RateLimit-Limit"))
       IN  running' = [running EXCEPT ![g] =
                          IF limit.ok THEN [@ EXCEPT !.pc = "storeRemaining", !.limit = limit.val]
                          ELSE [@ EXCEPT !.pc = "done"]]
    /\ UNCHANGED <<CallsLimit, CallsRemaining, Token, Login, method, input, output, sent, bodies, program>>

\* github.CallsRemaining = int(remain)
StoreRemaining(g) ==
    /\ running[g].pc = "storeRemaining"
    /\ CallsRemaining' = running[g].remain
    /\ running' = [running EXCEPT ![g].pc = "storeLimit"]
    /\ UNCHANGED <<CallsLimit, Token, Login, method, input, output, sent, bodies, program>>

\* github.CallsLimit = int(limit)
StoreLimit(g) ==
    /\ running[g].pc = "storeLimit"
    /\ CallsLimit' = running[g].limit
    /\ running' = [running EXCEPT ![g].pc = "done"]
    /\ UNCHANGED <<CallsRemaining, Token, Login, method, input, output, sent, bodies, program>>

\* both calls have returned and their callers go on
CallersContinue ==
    /\ method = "concurrent"
    /\ \A g \in Goroutines : running[g].pc = "done"
    /\ method' = "none"
    /\ input' = <<>>
    /\ running' = NoneRunning
    /\ UNCHANGED <<CallsLimit, CallsRemaining, Token, Login, output, sent, bodies, program>>

NextRace ==
    \/ BeginCalls
    \/ \E g \in Goroutines : ParseRemaining(g)
    \/ \E g \in Goroutines : ParseLimit(g)
    \/ \E g \in Goroutines : StoreRemaining(g)
    \/ \E g \in Goroutines : StoreLimit(g)
    \/ CallersContinue

SpecRace == InitRace /\ [][NextRace]_vars

\* both calls are through getLimits
BothReturned == method = "concurrent" /\ \A g \in Goroutines : running[g].pc = "done"

\* the two rate-limit headers of the response of call g, as numbers
HeaderPair(g) ==
    [remain |-> ParseInt(HeaderGet(input[g].res.Header, "X-RateLimit-Remaining")),
     limit  |-> ParseInt(HeaderGet(input[g].res.Header, "X-RateLimit-Limit"))]

\* C17: when two endpoint calls on the same client finish concurrently, each
\* with both rate-limit headers parsable, the final (CallsLimit,
\* CallsRemaining) pair equals the header pair of one of the two responses;
\* it is never CallsRemaining from one response combined with CallsLimit
\* from the other.
C17_ConcurrentCallsLastWriteWins ==
    (/\ BothReturned
     /\ \A g \in Goroutines : HeaderPair(g).remain.ok /\ HeaderPair(g).limit.ok)
        => \E g \in Goroutines :
               /\ CallsRemaining = HeaderPair(g).remain.val
               /\ CallsLimit = HeaderPair(g).limit.val

----------------------------------------------------------------------------
(* createUrl, applied to bounded tokens and paths.                         *)

Tokens == Strs({"a", " ", "&", "%"}, MaxTokenLen)

Paths == Strs({"/", "?", "a"}, MaxPathLen)

InitUrl == \E token \in Tokens : NewGitHubClient(token, SessionLogin) /\ Idle

createUrlCall ==
    /\ method = "none"
    /\ \E path \in Paths :
           /\ method' = "createUrl"
           /\ input' = [path |-> path]
           /\ output' = createUrl(Token, path)
    /\ UNCHANGED <<CallsLimit, CallsRemaining, Token, Login, sent, bodies, running, program>>

NextUrl == createUrlCall \/ CallerContinues

SpecUrl == InitUrl /\ [][NextUrl]_vars

HexVal(c) == (CHOOSE d \in 1..16 : UpperHex[d] = c) - 1

RECURSIVE QueryUnescape(_)
\* what a standard query-string parser reads back from an escaped value
QueryUnescape(s) ==
    IF s = <<>> THEN <<>>
    ELSE IF Head(s) = "+" THEN <<" ">> \o QueryUnescape(Tail(s))
    ELSE IF Head(s) = "%"
         THEN <<CHOOSE c \in {" ", "%", "&", "+", "/", "=", "?"} :
                    Ord(c) = 16 * HexVal(s[2]) + HexVal(s[3])>>
              \o QueryUnescape(SubSeq(s, 4, Len(s)))
    ELSE <<Head(s)>> \o QueryUnescape(Tail(s))

\* C10: createUrl(path) is the API base URL, then path, then '?' when path
\* holds no '?' and '&' when it does, then access_token= and the escaped
\* token: a value with no byte that would end or split the parameter, which
\* a query-string parser reads back as the token.
C10_createUrlAppendsToken ==
    method = "createUrl" =>
        LET base  == <<"h","t","t","p","s",":","/","/","a","p","i",".","g","i","t","h","u","b",".","c","o","m">>
            name  == <<"a","c","c","e","s","s","_","t","o","k","e","n","=">>
            start == Len(base) + Len(input.path)
            value == SubSeq(output, start + 1 + Len(name) + 1, Len(output))
        IN  /\ Len(output) >= start + 1 + Len(name)
            /\ SubSeq(output, 1, start) = base \o input.path
            /\ output[start + 1] =
                   IF \E i \in 1..Len(input.path) : input.path[i] = "?" THEN "&" ELSE "?"
            /\ SubSeq(output, start + 2, start + 1 + Len(name)) = name
            /\ \A i \in 1..Len(value) : value[i] \notin {"&", "=", "?", "#", " ", "/"}
            /\ QueryUnescape(value) = Token

\* createUrl ran on a path that already holds a '?' with a token that needs escaping
C10_Witness_Ampersand ==
    /\ method = "createUrl"
    /\ input.path = <<"/", "?">>
    /\ Token = <<"a", "&">>
    /\ output[Len(output) - 3] = "a"
    /\ SubSeq(output, Len(output) - 2, Len(output)) = <<"%", "2", "6">>

----------------------------------------------------------------------------
(* UrlDataConvert, applied to bounded getData maps.                        *)

\* one key=value pair, as the loop body of UrlDataConvert writes it
EncodePair_ValueNotEscaped(key, val) ==
    QueryEscape(TrimSpace(key)) \o <<"=">> \o TrimSpace(val)

EncodePair(key, val) ==
    QueryEscape(TrimSpace(key)) \o <<"=">> \o QueryEscape(TrimSpace(val))

\* the loop of UrlDataConvert from the i-th entry on, s being the text so far
RECURSIVE UrlDataConvertFrom(_, _, _, _)
UrlDataConvertFrom(m, order, i, s) ==
    IF i > Len(order) THEN s
    ELSE UrlDataConvertFrom(m, order, i + 1,
             IF Len(s) = 0 THEN s \o EncodePair(order[i], m[order[i]])
             ELSE s \o <<"&">> \o EncodePair(order[i], m[order[i]]))

\* GitHubClient.UrlDataConvert(m), the range loop visiting the keys in order
UrlDataConvert(m, order) == UrlDataConvertFrom(m, order, 1, <<>>)

\* the orders in which a range loop can visit the keys of m
RangeOrders(m) ==
    {order \in [1..Cardinality(DOMAIN m) -> DOMAIN m] :
        \A i, j \in 1..Cardinality(DOMAIN m) : i # j => order[i] # order[j]}

OptionKeys == Strs({" ", "="}, MaxOptLen) \ {<<>>}

OptionValues == Strs({" ", "&"}, MaxOptLen) \ {<<>>}

\* the getData maps: non-empty keys and values, at most MaxOpts entries
GetData ==
    UNION {[d -> OptionValues] : d \in {k \in SUBSET OptionKeys : Cardinality(k) <= MaxOpts}}

InitConvert == NewGitHubClient(SessionToken, SessionLogin) /\ Idle

UrlDataConvertCall ==
    /\ method = "none"
    /\ \E m \in GetData :
           \E order \in RangeOrders(m) :
               /\ method' = "UrlDataConvert"
               /\ input' = [m |-> m, order |-> order]
               /\ output' = UrlDataConvert(m, order)
    /\ UNCHANGED <<CallsLimit, CallsRemaining, Token, Login, sent, bodies, running, program>>

NextConvert == UrlDataConvertCall \/ CallerContinues

SpecConvert == InitConvert /\ [][NextConvert]_vars

\* s cut at every sep
RECURSIVE Split(_, _)
Split(s, sep) ==
    LET i == StringsIndex(s, sep)
    IN  IF i = -1 THEN <<s>>
        ELSE <<SubSeq(s, 1, i)>> \o Split(SubSeq(s, i + 2, Len(s)), sep)

\* one segment of a query string, read as a (key, value) pair
ParsePair(segment) ==
    LET i == StringsIndex(segment, "=")
    IN  IF i = -1 THEN <<QueryUnescape(segment), <<>>>>
        ELSE <<QueryUnescape(SubSeq(segment, 1, i)),
               QueryUnescape(SubSeq(segment, i + 2, Len(segment)))>>

\* the (key, value) pairs a standard query-string parser reads from s, in
\* the order of the text: segments between '&', empty ones skipped, each
\* cut at its first '=' and both halves unescaped
ParseQuery(s) ==
    LET segments == Split(s, "&")
        kept     == {i \in 1..Len(segments) : segments[i] # <<>>}
        nth(n)   == CHOOSE i \in kept : Cardinality({j \in kept : j < i}) = n - 1
    IN  [n \in 1..Cardinality(kept) |-> ParsePair(segments[nth(n)])]

\* how many times the pair p occurs among the parsed pairs
Occurrences(parsed, p) == Cardinality({i \in 1..Len(parsed) : parsed[i] = p})

\* C11 (as stated): parsing UrlDataConvert(m) yields exactly the original
\* (key, trimmed value) pairs of m, whatever the iteration order, and an
\* empty mapping yields the empty string.
C11_RoundTripOriginalKeys ==
    method = "UrlDataConvert" =>
        LET parsed == ParseQuery(output)
        IN  /\ Len(parsed) = Cardinality(DOMAIN input.m)
            /\ {parsed[i] : i \in 1..Len(parsed)}
                   = {<<k, TrimSpace(input.m[k])>> : k \in DOMAIN input.m}
            /\ (DOMAIN input.m = {} => output = <<>>)

\* C11 (amended): parsing UrlDataConvert(m) yields exactly the (trimmed key,
\* trimmed value) pairs of m, each as often as m holds an entry that trims
\* to it, whatever the iteration order; an empty mapping yields the empty
\* string.
C11_RoundTripTrimmedKeys ==
    method = "UrlDataConvert" =>
        LET parsed   == ParseQuery(output)
            trimmed(k) == <<TrimSpace(k), TrimSpace(input.m[k])>>
        IN  /\ Len(parsed) = Cardinality(DOMAIN input.m)
            /\ \A k \in DOMAIN input.m :
                   Occurrences(parsed, trimmed(k))
                       = Cardinality({l \in DOMAIN input.m : trimmed(l) = trimmed(k)})
            /\ (DOMAIN input.m = {} => output = <<>>)

\* UrlDataConvert ran on two entries whose keys trim to the same text and
\* whose values need trimming and escaping
C11_Witness_TrimmedAndEscaped ==
    /\ method = "UrlDataConvert"
    /\ DOMAIN input.m = {<<"=">>, <<" ", "=">>}
    /\ input.m[<<"=">>] = <<"&", " ">>
    /\ input.m[<<" ", "=">>] = <<"&", "&">>
    /\ input.order = <<<<" ", "=">>, <<"=">>>>
    /\ output = <<"%","3","D","=","%","2","6","%","2","6","&","%","3","D","=","%","2","6">>

----------------------------------------------------------------------------
(* The stubbed transport: what github.Client answers to one request.       *)

StatusCodes == {200, 201, 202, 204, 302, 404, 409, 500}

\* http.Response.Status for a status code
StatusLine(code) ==
    CASE code = 200 -> "200 OK"
      [] code = 201 -> "201 Created"
      [] code = 202 -> "202 Accepted"
      [] code = 204 -> "204 No Content"
      [] code = 302 -> "302 Found"
      [] code = 404 -> "404 Not Found"
      [] code = 405 -> "405 Method Not Allowed"
      [] code = 409 -> "409 Conflict"
      [] code = 500 -> "500 Internal Server Error"

\* the rate-limit headers of a response: each absent or present
RateHeaders ==
    {remaining @@ limit :
        remaining \in Maps({"X-RateLimit-Remaining"}, {<<"5", "9">>, <<"5", "8">>}),
        limit \in Maps({"X-RateLimit-Limit"}, {<<"6", "0">>})}

\* the JSON texts a body can hold: no bytes at all, an object (its members),
\* or an array (its elements)
JsonTexts ==
    {[kind |-> "empty"],
     [kind |-> "object", members |-> [message |-> "Merge conflict"]],
     [kind |-> "object", members |-> [sha |-> "6dcb09b", url |-> "https://api.github.com/repos/o/r/commits/6dcb09b"]],
     [kind |-> "array", elements |-> <<>>]}

\* a body: whether ioutil.ReadAll succeeds on it, and the text it then yields
Bodies ==
    {[readable |-> FALSE, json |-> [kind |-> "empty"]]}
        \cup {[readable |-> TRUE, json |-> j] : j \in JsonTexts}

Responses ==
    {[StatusCode |-> code, Status |-> StatusLine(code), Header |-> header, Body |-> body] :
        code \in StatusCodes, header \in RateHeaders, body \in Bodies}

\* Go's nil error, and errors.New(text)
NoError == [nil |-> TRUE, text |-> <<>>]

ErrorsNew(text) == [nil |-> FALSE, text |-> text]

\* the answers of the transport: an error and no response, or a response
Replies ==
    {[failed |-> TRUE, err |-> ErrorsNew(<<"dial tcp: connection refused">>)]}
        \cup {[failed |-> FALSE, res |-> res] : res \in Responses}

\* a nil pointer or slice, and a non-nil one holding val
Nil == [nil |-> TRUE]

NonNil(val) == [nil |-> FALSE, val |-> val]

\* a bool return value
Bool(b) == [bool |-> b]

\* a string return value
Str(s) == [string |-> s]

\* the members encoding/json fills in a value of each struct type (the
\* json tags of the fields the model keeps)
StructFields(type) ==
    CASE type = "Commit"  -> {"url", "sha"}
      [] type = "Repo"    -> {"name", "url"}
      [] type = "Issue"   -> {"url", "title"}
      [] type = "Message" -> {"message"}
      [] type = "Fork"    -> {"name", "url"}
      [] type = "Branch"  -> {"name", "url"}
      [] type = "PullRequest" -> {"url", "title"}
      [] type = "PullMerge" -> {"sha", "message"}
      [] type = "Comment" -> {"url", "body"}
      [] type = "Milestone" -> {"url", "title"}
      [] type = "GitKey" -> {"key", "title"}
      [] type = "Key" -> {"key", "title"}
      [] type = "Gist" -> {"url", "id"}

SliceTypes == {"Keys", "[]IssueLabel", "[]CommitFile", "[]Comment", "[]GitUser", "[]Milestone"}

\* what ends the process when a goroutine's stack cannot grow any further
StackExhausted == ErrorsNew(<<"fatal error: stack overflow">>)

\* (n *Milestone) UnmarshalJSON(b) and (n *Comment) UnmarshalJSON(b), entered
\* with frames calls of it on the stack: for anything but null it hands n,
\* converted to the type it already has, back to json.Unmarshal, which
\* finds the same method and calls it again
RECURSIVE UnmarshalJSON(_, _)
UnmarshalJSON(b, frames) ==
    IF b.kind = "null" THEN "returned"
    ELSE IF frames = MaxStack THEN "stack overflow"
    ELSE UnmarshalJSON(b, frames + 1)

\* json.Unmarshal(data, v) for v of the given type, passed by pointer or by
\* value: the text is checked first, then v must be a pointer, then a type
\* with an UnmarshalJSON method is handed the text, and otherwise the JSON
\* value must fit the type.
Unmarshal(data, v) ==
    IF data.kind = "empty"
    THEN [err |-> ErrorsNew(<<"unexpected end of JSON input">>), val |-> <<>>]
    ELSE IF ~v.pointer
    THEN [err |-> ErrorsNew(<<"json: Unmarshal(non-pointer ", v.type, ")">>), val |-> <<>>]
    ELSE IF v.type \in {"Comment", "Milestone"}
    THEN IF UnmarshalJSON(data, 1) = "stack overflow"
         THEN [err |-> StackExhausted, val |-> <<>>]
         ELSE [err |-> NoError, val |-> [f \in StructFields(v.type) |-> ""]]
    ELSE IF /\ v.type \in {"[]Comment", "[]Milestone"}
            /\ data.kind = "array"
            /\ \E i \in 1..Len(data.elements) : UnmarshalJSON(data.elements[i], 1) = "stack overflow"
    THEN [err |-> StackExhausted, val |-> <<>>]
    ELSE IF data.kind = "null"
    THEN [err |-> NoError,
          val |-> IF v.type \in SliceTypes THEN <<>> ELSE [f \in StructFields(v.type) |-> ""]]
    ELSE IF data.kind = "object" /\ v.type \notin SliceTypes
    THEN [err |-> NoError,
          val |-> [f \in StructFields(v.type) |->
                      IF f \in DOMAIN data.members THEN data.members[f] ELSE ""]]
    ELSE IF data.kind = "array" /\ v.type \in SliceTypes
    THEN [err |-> NoError, val |-> data.elements]
    ELSE [err |-> ErrorsNew(<<"json: cannot unmarshal ", data.kind, " into Go value of type ", v.type>>),
          val |-> <<>>]

\* the error ioutil.ReadAll returns on an unreadable body
ReadError == ErrorsNew(<<"unexpected EOF">>)

ReadAllUnmarshal_ReadErrorDropped(res, v) ==
    Unmarshal(IF res.Body.readable THEN res.Body.json ELSE [kind |-> "empty"], v)

\* ioutil.ReadAll(res.Body) followed by json.Unmarshal into v
ReadAllUnmarshal(res, v) ==
    IF ~res.Body.readable THEN [err |-> ReadError, val |-> <<>>]
    ELSE Unmarshal(res.Body.json, v)

----------------------------------------------------------------------------
(* The endpoint methods.  Each operator is one method run to its return:   *)
(* what it returns, the requests it issued, and the counters it leaves.    *)

Return(result, err, requests, calls) ==
    [result |-> result, err |-> err, sent |-> requests, calls |-> calls,
     bodies |-> <<>>, panic |-> FALSE]

\* a call on github.Client has answered with a response: its body is open
Obtained(r) == [r EXCEPT !.bodies = <<"open">> \o @]

\* defer res.Body.Close() on the response just obtained: its body is closed
\* when the method returns; a stack overflow ends the process without
\* running deferred calls
DeferClose(r) ==
    IF r.panic /\ r.err = StackExhausted THEN r
    ELSE [r EXCEPT !.bodies = <<"closed">> \o Tail(@)]

\* the method does not return: it dereferences a nil pointer and panics
Panic(requests, calls) ==
    [result |-> Nil,
     err |-> ErrorsNew(<<"runtime error: invalid memory address or nil pointer dereference">>),
     sent |-> requests, calls |-> calls, bodies |-> <<>>, panic |-> TRUE]

\* the method does not return: decoding overflowed the stack
Fatal(requests, calls) ==
    [result |-> Nil, err |-> StackExhausted,
     sent |-> requests, calls |-> calls, bodies |-> <<>>, panic |-> TRUE]

\* github.Client.Get(url)
Get(url) == [verb |-> "GET", url |-> url]

\* urlData["owner"] = github.Login when owner is missing or blank
DefaultOwner(urlData) ==
    IF ~AssertMapString("owner", urlData)
    THEN [k \in DOMAIN urlData \cup {"owner"} |-> IF k = "owner" THEN Login ELSE urlData[k]]
    ELSE urlData

GetRepo(urlData, rt) ==
    IF ~AssertMapString("repo", urlData)
    THEN Return(Nil, ErrorsNew(<<"Data to create the url is missing. Both user and id are required fields for this map.">>), <<>>, Calls)
    ELSE LET data   == DefaultOwner(urlData)
             apiUrl == createUrl(Token, <<"/","r","e","p","o","s","/">> \o Lookup(data, "owner")
                                        \o <<"/">> \o Lookup(data, "repo"))
         IN  IF rt.failed THEN Return(Nil, rt.err, <<Get(apiUrl)>>, Calls)
             ELSE DeferClose(Obtained(
                  IF rt.res.StatusCode = 200
                  THEN LET repo == ReadAllUnmarshal(rt.res, [pointer |-> TRUE, type |-> "Repo"])
                       IN  IF ~repo.err.nil THEN Return(Nil, repo.err, <<Get(apiUrl)>>, Calls)
                           ELSE Return(NonNil(repo.val), NoError, <<Get(apiUrl)>>, getLimits(Calls, rt.res))
                  ELSE Return(Nil, ErrorsNew(<<"Didn't receive 200 status from Github: ", rt.res.Status>>),
                              <<Get(apiUrl)>>, Calls)))

GetRepoKeys(urlData, rt) ==
    IF ~AssertMapString("repo", urlData)
    THEN Return(Nil, ErrorsNew(<<"There is missing data in urlData">>), <<>>, Calls)
    ELSE LET data   == DefaultOwner(urlData)
             apiUrl == createUrl(Token, <<"/","r","e","p","o","s","/">> \o Lookup(data, "owner")
                                        \o <<"/">> \o Lookup(data, "repo") \o <<"/","k","e","y","s">>)
         IN  IF rt.failed THEN Return(Nil, rt.err, <<Get(apiUrl)>>, Calls)
             ELSE DeferClose(Obtained(
                  IF rt.res.StatusCode = 200
                  THEN LET keys == ReadAllUnmarshal(rt.res, [pointer |-> TRUE, type |-> "Keys"])
                       IN  IF ~keys.err.nil THEN Return(Nil, keys.err, <<Get(apiUrl)>>, Calls)
                           ELSE Return(NonNil(keys.val), NoError, <<Get(apiUrl)>>, getLimits(Calls, rt.res))
                  ELSE Return(Nil, ErrorsNew(<<"Didn't receive 200 status from Github: ", rt.res.Status>>),
                              <<Get(apiUrl)>>, Calls)))

ListRepoLabels(urlData, rt) ==
    IF ~AssertMapString("repo", urlData)
    THEN Return(Nil, ErrorsNew(<<"The urlData[\"repo\"] value is either empty or doesn't contain any non-whitespace content">>), <<>>, Calls)
    ELSE LET data   == DefaultOwner(urlData)
             apiUrl == createUrl(Token, <<"/","r","e","p","o","s","/">> \o Lookup(data, "owner")
                                        \o <<"/">> \o Lookup(data, "repo") \o <<"/","l","a","b","e","l","s">>)
         IN  IF rt.failed THEN Return(Nil, rt.err, <<Get(apiUrl)>>, Calls)
             ELSE DeferClose(Obtained(
                  IF rt.res.StatusCode = 200
                  THEN LET labels == ReadAllUnmarshal(rt.res, [pointer |-> TRUE, type |-> "[]IssueLabel"])
                       IN  IF ~labels.err.nil THEN Return(Nil, labels.err, <<Get(apiUrl)>>, Calls)
                           ELSE Return(NonNil(labels.val), NoError, <<Get(apiUrl)>>, getLimits(Calls, rt.res))
                  ELSE Return(Nil, ErrorsNew(<<"Didn't receive 200 status from Github: ", rt.res.Status>>),
                              <<Get(apiUrl)>>, Calls)))

GetIssue(urlData, rt) ==
    IF ~AssertMapStrings(<<"repo", "number">>, urlData)
    THEN Return(Nil, ErrorsNew(<<"The urlData[\"repo\"] value and/or urlData[\"number\"] value is either empty or doesn't contain any non-whitespace content">>), <<>>, Calls)
    ELSE LET data   == DefaultOwner(urlData)
             apiUrl == createUrl(Token, <<"/","r","e","p","o","s","/">> \o Lookup(data, "owner")
                                        \o <<"/">> \o Lookup(data, "repo")
                                        \o <<"/","i","s","s","u","e","s","/">> \o Lookup(data, "number"))
         IN  IF rt.failed THEN Return(Nil, rt.err, <<Get(apiUrl)>>, Calls)
             ELSE DeferClose(Obtained(
                  IF rt.res.StatusCode = 200
                  THEN LET issue == ReadAllUnmarshal(rt.res, [pointer |-> TRUE, type |-> "Issue"])
                       IN  IF ~issue.err.nil THEN Return(Nil, issue.err, <<Get(apiUrl)>>, Calls)
                           ELSE Return(NonNil(issue.val), NoError, <<Get(apiUrl)>>, getLimits(Calls, rt.res))
                  ELSE Return(Nil, ErrorsNew(<<"Didn't receive 200 status from Github: ", rt.res.Status>>),
                              <<Get(apiUrl)>>, Calls)))

IsCollab_NoStatusLine(urlData, rt) ==
    IF ~AssertMapStrings(<<"repo", "user">>, urlData)
    THEN Return(Bool(FALSE), ErrorsNew(<<"There is missing data in urlData">>), <<>>, Calls)
    ELSE LET data   == DefaultOwner(urlData)
             apiUrl == createUrl(Token, <<"/","r","e","p","o","s","/">> \o Lookup(data, "owner")
                                        \o <<"/">> \o Lookup(data, "repo")
                                        \o <<"/","c","o","l","l","a","b","o","r","a","t","o","r","s","/">>
                                        \o Lookup(data, "user"))
         IN  IF rt.failed THEN Return(Bool(FALSE), rt.err, <<Get(apiUrl)>>, Calls)
             ELSE DeferClose(Obtained(
                  IF rt.res.StatusCode = 204
                  THEN Return(Bool(TRUE), NoError, <<Get(apiUrl)>>, getLimits(Calls, rt.res))
                  ELSE IF rt.res.StatusCode = 404
                  THEN Return(Bool(FALSE), NoError, <<Get(apiUrl)>>, getLimits(Calls, rt.res))
                  ELSE Return(Bool(FALSE), ErrorsNew(<<"Didn't receive 204 or 404 status from Github">>),
                              <<Get(apiUrl)>>, getLimits(Calls, rt.res))))

IsCollab(urlData, rt) ==
    IF ~AssertMapStrings(<<"repo", "user">>, urlData)
    THEN Return(Bool(FALSE), ErrorsNew(<<"There is missing data in urlData">>), <<>>, Calls)
    ELSE LET data   == DefaultOwner(urlData)
             apiUrl == createUrl(Token, <<"/","r","e","p","o","s","/">> \o Lookup(data, "owner")
                                        \o <<"/">> \o Lookup(data, "repo")
                                        \o <<"/","c","o","l","l","a","b","o","r","a","t","o","r","s","/">>
                                        \o Lookup(data, "user"))
         IN  IF rt.failed THEN Return(Bool(FALSE), rt.err, <<Get(apiUrl)>>, Calls)
             ELSE DeferClose(Obtained(
                  IF rt.res.StatusCode = 204
                  THEN Return(Bool(TRUE), NoError, <<Get(apiUrl)>>, getLimits(Calls, rt.res))
                  ELSE IF rt.res.StatusCode = 404
                  THEN Return(Bool(FALSE), NoError, <<Get(apiUrl)>>, getLimits(Calls, rt.res))
                  ELSE Return(Bool(FALSE), ErrorsNew(<<"Didn't receive 204 or 404 status from Github: ", rt.res.Status>>),
                              <<Get(apiUrl)>>, getLimits(Calls, rt.res))))

CheckAssignees(urlData, rt) ==
    IF ~AssertMapStrings(<<"repo", "assignee">>, urlData)
    THEN Return(Bool(FALSE), ErrorsNew(<<"The urlData[\"repo\"] value and/or urlData[\"assignee\"] value is either empty or doesn't contain any non-whitespace content">>), <<>>, Calls)
    ELSE LET data   == DefaultOwner(urlData)
             apiUrl == createUrl(Token, <<"/","r","e","p","o","s","/">> \o Lookup(data, "owner")
                                        \o <<"/">> \o Lookup(data, "repo")
                                        \o <<"/","a","s","s","i","g","n","e","e","s","/">>
                                        \o Lookup(data, "assignee"))
         IN  IF rt.failed THEN Return(Bool(FALSE), rt.err, <<Get(apiUrl)>>, Calls)
             ELSE DeferClose(Obtained(
                  IF rt.res.StatusCode = 204
                  THEN Return(Bool(TRUE), NoError, <<Get(apiUrl)>>, getLimits(Calls, rt.res))
                  ELSE IF rt.res.StatusCode = 404
                  THEN Return(Bool(FALSE), NoError, <<Get(apiUrl)>>, getLimits(Calls, rt.res))
                  ELSE Return(Bool(FALSE), ErrorsNew(<<"Didn't receive 204/404 status from Github: ", rt.res.Status>>),
                              <<Get(apiUrl)>>, Calls)))

GetTeamMember(urlData, rt) ==
    IF ~AssertMapStrings(<<"id", "user">>, urlData)
    THEN Return(Bool(FALSE), ErrorsNew(<<"Data missing to create the url is missing. Both user and id are required fields for this map.">>), <<>>, Calls)
    ELSE LET apiUrl == createUrl(Token, <<"/","t","e","a","m","s","/">> \o Lookup(urlData, "id")
                                        \o <<"/","m","e","m","b","e","r","s","/">> \o Lookup(urlData, "user"))
         IN  IF rt.failed THEN Return(Bool(FALSE), rt.err, <<Get(apiUrl)>>, Calls)
             ELSE DeferClose(Obtained(
                  IF rt.res.StatusCode = 204
                  THEN Return(Bool(TRUE), NoError, <<Get(apiUrl)>>, getLimits(Calls, rt.res))
                  ELSE IF rt.res.StatusCode = 404
                  THEN Return(Bool(FALSE), NoError, <<Get(apiUrl)>>, getLimits(Calls, rt.res))
                  ELSE Return(Bool(FALSE), ErrorsNew(<<"Didn't receive 204/404 status from Github: ", rt.res.Status>>),
                              <<Get(apiUrl)>>, Calls)))

\* on 204 the body is read and unmarshalled into files, a []CommitFile{}
\* passed by value
HasPullMerged(urlData, rt) ==
    IF ~AssertMapStrings(<<"repo", "number">>, urlData)
    THEN Return(Bool(FALSE), ErrorsNew(<<"One or more fields are missing and/or do not have content.">>), <<>>, Calls)
    ELSE LET data   == DefaultOwner(urlData)
             apiUrl == createUrl(Token, <<"/","r","e","p","o","s","/">> \o Lookup(data, "owner")
                                        \o <<"/">> \o Lookup(data, "repo")
                                        \o <<"/","p","u","l","l","s","/">> \o Lookup(data, "number")
                                        \o <<"/","m","e","r","g","e">>)
         IN  IF rt.failed THEN Return(Bool(FALSE), rt.err, <<Get(apiUrl)>>, Calls)
             ELSE DeferClose(Obtained(
                  IF rt.res.StatusCode = 204
                  THEN LET files == ReadAllUnmarshal(rt.res, [pointer |-> FALSE, type |-> "[]CommitFile"])
                       IN  IF ~files.err.nil THEN Return(Bool(FALSE), files.err, <<Get(apiUrl)>>, Calls)
                           ELSE Return(Bool(TRUE), NoError, <<Get(apiUrl)>>, getLimits(Calls, rt.res))
                  ELSE IF rt.res.StatusCode = 404
                  THEN Return(Bool(FALSE), NoError, <<Get(apiUrl)>>, Calls)
                  ELSE Return(Bool(FALSE), ErrorsNew(<<"Didn't receive 204/404 status from Github: ", rt.res.Status>>),
                              <<Get(apiUrl)>>, Calls)))

AreFollowing(user, rt) ==
    LET apiUrl == createUrl(Token, <<"/","u","s","e","r","/","f","o","l","l","o","w","i","n","g","/">> \o user)
    IN  IF rt.failed THEN Return(Bool(FALSE), rt.err, <<Get(apiUrl)>>, Calls)
        ELSE DeferClose(Obtained(
             IF rt.res.StatusCode = 204
             THEN Return(Bool(TRUE), NoError, <<Get(apiUrl)>>, Calls)
             ELSE IF rt.res.StatusCode = 404
             THEN Return(Bool(FALSE), NoError, <<Get(apiUrl)>>, Calls)
             ELSE Return(Bool(FALSE), ErrorsNew(<<"Didn't receive 200 status from Github: ", rt.res.Status>>),
                         <<Get(apiUrl)>>, Calls)))

\* http.NewRequest(verb, url, nil) handed to github.Client.Do
Do(verb, url) == [verb |-> verb, url |-> url]

\* url.Parse accepts url: every '%' of its path is followed by two
\* hexadecimal digits
UrlParses(url) ==
    LET q    == StringsIndex(url, "?")
        path == IF q = -1 THEN url ELSE SubSeq(url, 1, q)
        hex  == {UpperHex[d] : d \in 1..16} \cup {"a", "b", "c", "d", "e", "f"}
    IN  \A i \in 1..Len(path) :
            path[i] = "%" => (i + 2 <= Len(path) /\ path[i + 1] \in hex /\ path[i + 2] \in hex)

\* the error of http.NewRequest is dropped: when the URL does not parse,
\* apiRequest is nil and github.Client.Do dereferences it
FollowUser(user, rt) ==
    LET apiUrl == createUrl(Token, <<"/","u","s","e","r","/","f","o","l","l","o","w","i","n","g","/">> \o user)
    IN  IF ~UrlParses(apiUrl) THEN Panic(<<>>, Calls)
        ELSE IF rt.failed THEN Return(Bool(FALSE), rt.err, <<Do("PUT", apiUrl)>>, Calls)
        ELSE DeferClose(Obtained(
             IF rt.res.StatusCode = 204
             THEN Return(Bool(TRUE), NoError, <<Do("PUT", apiUrl)>>, Calls)
             ELSE Return(Bool(FALSE), ErrorsNew(<<"Didn't receive 200 status from Github: ", rt.res.Status>>),
                         <<Do("PUT", apiUrl)>>, Calls)))

\* the error of http.NewRequest is dropped: when the URL does not parse,
\* apiRequest is nil and github.Client.Do dereferences it
UnfollowUser(user, rt) ==
    LET apiUrl == createUrl(Token, <<"/","u","s","e","r","/","f","o","l","l","o","w","i","n","g","/">> \o user)
    IN  IF ~UrlParses(apiUrl) THEN Panic(<<>>, Calls)
        ELSE IF rt.failed THEN Return(Bool(FALSE), rt.err, <<Do("DELETE", apiUrl)>>, Calls)
        ELSE DeferClose(Obtained(
             IF rt.res.StatusCode = 204
             THEN Return(Bool(TRUE), NoError, <<Do("DELETE", apiUrl)>>, Calls)
             ELSE Return(Bool(FALSE), ErrorsNew(<<"Didn't receive 200 status from Github: ", rt.res.Status>>),
                         <<Do("DELETE", apiUrl)>>, Calls)))

CheckOrgMembership_SecondNotFoundIsNonMember(org, user, rts) ==
    IF Len(TrimSpace(org)) = 0
    THEN Return(Str(""), ErrorsNew(<<"The org given does not contain any non-whitespace content">>), <<>>, Calls)
    ELSE LET member == IF Len(TrimSpace(user)) = 0 THEN Login ELSE TrimSpace(user)
             apiUrl == createUrl(Token, <<"/","o","r","g","s","/">> \o TrimSpace(org)
                                        \o <<"/","m","e","m","b","e","r","s","/">> \o member)
             first  == rts[1]
         IN  IF first.failed THEN Return(Str(""), first.err, <<Get(apiUrl)>>, Calls)
             ELSE DeferClose(Obtained(
                  IF first.res.StatusCode = 204
                  THEN Return(Str("member"), NoError, <<Get(apiUrl)>>, Calls)
                  ELSE IF first.res.StatusCode = 404
                  THEN Return(Str("non-member"), NoError, <<Get(apiUrl)>>, Calls)
                  ELSE IF first.res.StatusCode = 302
                  THEN LET location == Get(HeaderGet(first.res.Header, "Location"))
                           second   == rts[2]
                       IN  IF second.failed
                           THEN Return(Str("unconfirmed"), second.err, <<Get(apiUrl), location>>, Calls)
                           ELSE Obtained(
                                IF second.res.StatusCode = 200
                                THEN Return(Str("member"), NoError, <<Get(apiUrl), location>>, Calls)
                                ELSE IF second.res.StatusCode = 404
                                THEN Return(Str("non-member"), NoError, <<Get(apiUrl), location>>, Calls)
                                ELSE Return(Str(""), ErrorsNew(<<"Didn't receive 200 status from Github: ", second.res.Status>>),
                                            <<Get(apiUrl), location>>, Calls))
                  ELSE Return(Str(""), ErrorsNew(<<"Didn't receive 200 status from Github: ", first.res.Status>>),
                              <<Get(apiUrl)>>, Calls)))

\* rts holds the transport's answers in the order of the requests: one, and
\* a second one for the request that follows a 302
CheckOrgMembership(org, user, rts) ==
    IF Len(TrimSpace(org)) = 0
    THEN Return(Str(""), ErrorsNew(<<"The org given does not contain any non-whitespace content">>), <<>>, Calls)
    ELSE LET member == IF Len(TrimSpace(user)) = 0 THEN Login ELSE TrimSpace(user)
             apiUrl == createUrl(Token, <<"/","o","r","g","s","/">> \o TrimSpace(org)
                                        \o <<"/","m","e","m","b","e","r","s","/">> \o member)
             first  == rts[1]
         IN  IF first.failed THEN Return(Str(""), first.err, <<Get(apiUrl)>>, Calls)
             ELSE DeferClose(Obtained(
                  IF first.res.StatusCode = 204
                  THEN Return(Str("member"), NoError, <<Get(apiUrl)>>, Calls)
                  ELSE IF first.res.StatusCode = 404
                  THEN Return(Str("non-member"), NoError, <<Get(apiUrl)>>, Calls)
                  ELSE IF first.res.StatusCode = 302
                  THEN LET location == Get(HeaderGet(first.res.Header, "Location"))
                           second   == rts[2]
                       IN  IF second.failed
                           THEN Return(Str("unconfirmed"), second.err, <<Get(apiUrl), location>>, Calls)
                           ELSE Obtained(
                                IF second.res.StatusCode = 200
                                THEN Return(Str("member"), NoError, <<Get(apiUrl), location>>, Calls)
                                ELSE IF second.res.StatusCode = 404
                                THEN Return(Str("unconfirmed"), NoError, <<Get(apiUrl), location>>, Calls)
                                ELSE Return(Str(""), ErrorsNew(<<"Didn't receive 200 status from Github: ", second.res.Status>>),
                                            <<Get(apiUrl), location>>, Calls))
                  ELSE Return(Str(""), ErrorsNew(<<"Didn't receive 200 status from Github: ", first.res.Status>>),
                              <<Get(apiUrl)>>, Calls)))

\* github.CreateReader(v): the JSON encoding of v
CreateReader(v) == [kind |-> "object", members |-> v]

\* github.Client.Post(url, contentType, body)
Post(url, contentType, body) ==
    [verb |-> "POST", url |-> url, contentType |-> contentType, body |-> body]

Merge_NoContentIsError(urlData, postData, rt) ==
    IF ~AssertMapString("repo", urlData)
    THEN Return(Nil, ErrorsNew(<<"There is missing data in urlData">>), <<>>, Calls)
    ELSE LET data    == DefaultOwner(urlData)
             apiUrl  == createUrl(Token, <<"/","r","e","p","o","s","/">> \o Lookup(data, "owner")
                                         \o <<"/">> \o Lookup(data, "repo") \o <<"/","m","e","r","g","e","s">>)
             request == Post(apiUrl, "application/json", CreateReader(postData))
         IN  IF rt.failed THEN Return(Nil, rt.err, <<request>>, Calls)
             ELSE DeferClose(Obtained(
                  IF rt.res.StatusCode = 201
                  THEN LET commit == ReadAllUnmarshal(rt.res, [pointer |-> TRUE, type |-> "Commit"])
                       IN  IF ~commit.err.nil THEN Return(Nil, commit.err, <<request>>, Calls)
                           ELSE Return(NonNil(commit.val), NoError, <<request>>, getLimits(Calls, rt.res))
                  ELSE Return(Nil, ErrorsNew(<<"Didn't receive 201 status from Github: ", rt.res.Status>>),
                              <<request>>, getLimits(Calls, rt.res))))

\* on 409 and 404 the body is unmarshalled into msg, a Message{} passed by value
Merge(urlData, postData, rt) ==
    IF ~AssertMapString("repo", urlData)
    THEN Return(Nil, ErrorsNew(<<"There is missing data in urlData">>), <<>>, Calls)
    ELSE LET data    == DefaultOwner(urlData)
             apiUrl  == createUrl(Token, <<"/","r","e","p","o","s","/">> \o Lookup(data, "owner")
                                         \o <<"/">> \o Lookup(data, "repo") \o <<"/","m","e","r","g","e","s">>)
             request == Post(apiUrl, "application/json", CreateReader(postData))
         IN  IF ~AssertMapStrings(<<"head", "base">>, data)
             THEN Return(Nil, ErrorsNew(<<"There is missing data in postData">>), <<>>, Calls)
             ELSE IF rt.failed THEN Return(Nil, rt.err, <<request>>, Calls)
             ELSE DeferClose(Obtained(
                  IF rt.res.StatusCode = 201
                  THEN LET commit == ReadAllUnmarshal(rt.res, [pointer |-> TRUE, type |-> "Commit"])
                       IN  IF ~commit.err.nil THEN Return(Nil, commit.err, <<request>>, Calls)
                           ELSE Return(NonNil(commit.val), NoError, <<request>>, getLimits(Calls, rt.res))
                  ELSE IF rt.res.StatusCode = 204
                  THEN Return(Nil, NoError, <<request>>, getLimits(Calls, rt.res))
                  ELSE IF rt.res.StatusCode = 409 \/ rt.res.StatusCode = 404
                  THEN LET msg == ReadAllUnmarshal(rt.res, [pointer |-> FALSE, type |-> "Message"])
                       IN  IF ~msg.err.nil THEN Return(Nil, msg.err, <<request>>, Calls)
                           ELSE Return(Nil, ErrorsNew(<<msg.val["message"]>>), <<request>>, getLimits(Calls, rt.res))
                  ELSE Return(Nil, ErrorsNew(<<"Didn't receive 201 status from Github: ", rt.res.Status>>),
                              <<request>>, getLimits(Calls, rt.res))))

MergePullRequest_CreatedIsSuccess(urlData, message, rt) ==
    IF ~AssertMapStrings(<<"repo", "number">>, urlData)
    THEN Return(Nil, ErrorsNew(<<"Your repo in your urlData is either missing or has a length of zero.">>), <<>>, Calls)
    ELSE LET data    == DefaultOwner(urlData)
             apiUrl  == createUrl(Token, <<"/","r","e","p","o","s","/">> \o Lookup(data, "owner")
                                         \o <<"/">> \o Lookup(data, "repo")
                                         \o <<"/","p","u","l","l","s","/">> \o Lookup(data, "number")
                                         \o <<"/","m","e","r","g","e","?","c","o","m","m","i","t","_","m","e","s","s","a","g","e","=">>
                                         \o QueryEscape(TrimSpace(message)))
             request == Do("PATCH", apiUrl)
         IN  IF ~UrlParses(apiUrl) THEN Return(Nil, ErrorsNew(<<"parse ", "invalid URL escape">>), <<>>, Calls)
             ELSE IF rt.failed THEN Return(Nil, rt.err, <<request>>, Calls)
             ELSE DeferClose(Obtained(
                  IF rt.res.StatusCode = 201 \/ rt.res.StatusCode = 405
                  THEN LET pullreq == ReadAllUnmarshal(rt.res, [pointer |-> TRUE, type |-> "PullMerge"])
                       IN  IF ~pullreq.err.nil THEN Return(Nil, pullreq.err, <<request>>, Calls)
                           ELSE Return(NonNil(pullreq.val), NoError, <<request>>, getLimits(Calls, rt.res))
                  ELSE Return(Nil, ErrorsNew(<<"Didn't receive 201 status from Github: ", rt.res.Status>>),
                              <<request>>, Calls)))

\* GitHubClient.MergePullRequest(urlData, message).  The sha and message
\* members of PullMerge are modelled; its merged flag is left out.
MergePullRequest(urlData, message, rt) ==
    IF ~AssertMapStrings(<<"repo", "number">>, urlData)
    THEN Return(Nil, ErrorsNew(<<"Your repo in your urlData is either missing or has a length of zero.">>), <<>>, Calls)
    ELSE LET data    == DefaultOwner(urlData)
             apiUrl  == createUrl(Token, <<"/","r","e","p","o","s","/">> \o Lookup(data, "owner")
                                         \o <<"/">> \o Lookup(data, "repo")
                                         \o <<"/","p","u","l","l","s","/">> \o Lookup(data, "number")
                                         \o <<"/","m","e","r","g","e","?","c","o","m","m","i","t","_","m","e","s","s","a","g","e","=">>
                                         \o QueryEscape(TrimSpace(message)))
             request == Do("PATCH", apiUrl)
         IN  IF ~UrlParses(apiUrl) THEN Return(Nil, ErrorsNew(<<"parse ", "invalid URL escape">>), <<>>, Calls)
             ELSE IF rt.failed THEN Return(Nil, rt.err, <<request>>, Calls)
             ELSE DeferClose(Obtained(
                  IF rt.res.StatusCode = 200 \/ rt.res.StatusCode = 405
                  THEN LET pullreq == ReadAllUnmarshal(rt.res, [pointer |-> TRUE, type |-> "PullMerge"])
                       IN  IF ~pullreq.err.nil THEN Return(Nil, pullreq.err, <<request>>, Calls)
                           ELSE Return(NonNil(pullreq.val), NoError, <<request>>, getLimits(Calls, rt.res))
                  ELSE Return(Nil, ErrorsNew(<<"Didn't receive 201 status from Github: ", rt.res.Status>>),
                              <<request>>, Calls)))

\* GitHubClient.GetRepoMilestone(urlData)
GetRepoMilestone(urlData, rt) ==
    IF ~AssertMapStrings(<<"repo", "number">>, urlData)
    THEN Return(Nil, ErrorsNew(<<"The urlData[\"repo\"] value is either empty or doesn't contain any non-whitespace content">>), <<>>, Calls)
    ELSE LET data   == DefaultOwner(urlData)
             apiUrl == createUrl(Token, <<"/","r","e","p","o","s","/">> \o Lookup(data, "owner")
                                        \o <<"/">> \o Lookup(data, "repo")
                                        \o <<"/","m","i","l","e","s","t","o","n","e","s","/">> \o Lookup(data, "number"))
         IN  IF rt.failed THEN Return(Nil, rt.err, <<Get(apiUrl)>>, Calls)
             ELSE DeferClose(Obtained(
                  IF rt.res.StatusCode = 200
                  THEN LET milestone == ReadAllUnmarshal(rt.res, [pointer |-> TRUE, type |-> "Milestone"])
                       IN  IF milestone.err = StackExhausted THEN Fatal(<<Get(apiUrl)>>, Calls)
                           ELSE IF ~milestone.err.nil THEN Return(Nil, milestone.err, <<Get(apiUrl)>>, Calls)
                           ELSE Return(NonNil(milestone.val), NoError, <<Get(apiUrl)>>, getLimits(Calls, rt.res))
                  ELSE Return(Nil, ErrorsNew(<<"Didn't receive 200 status from Github: ", rt.res.Status>>),
                              <<Get(apiUrl)>>, Calls)))

\* GitHubClient.GetIssueComment(urlData)
GetIssueComment(urlData, rt) ==
    IF ~AssertMapStrings(<<"repo", "id">>, urlData)
    THEN Return(Nil, ErrorsNew(<<"The urlData[\"repo\"] value and/org urlData[\"id\"] value is either empty or doesn't contain any non-whitespace content">>), <<>>, Calls)
    ELSE LET data   == DefaultOwner(urlData)
             apiUrl == createUrl(Token, <<"/","r","e","p","o","s","/">> \o Lookup(data, "owner")
                                        \o <<"/">> \o Lookup(data, "repo")
                                        \o <<"/","i","s","s","u","e","s","/","c","o","m","m","e","n","t","s","/">> \o Lookup(data, "id"))
         IN  IF rt.failed THEN Return(Nil, rt.err, <<Get(apiUrl)>>, Calls)
             ELSE DeferClose(Obtained(
                  IF rt.res.StatusCode = 200
                  THEN LET comment == ReadAllUnmarshal(rt.res, [pointer |-> TRUE, type |-> "Comment"])
                       IN  IF comment.err = StackExhausted THEN Fatal(<<Get(apiUrl)>>, Calls)
                           ELSE IF ~comment.err.nil THEN Return(Nil, comment.err, <<Get(apiUrl)>>, Calls)
                           ELSE Return(NonNil(comment.val), NoError, <<Get(apiUrl)>>, getLimits(Calls, rt.res))
                  ELSE Return(Nil, ErrorsNew(<<"Didn't receive 200 status from Github: ", rt.res.Status>>),
                              <<Get(apiUrl)>>, Calls)))

\* GitHubClient.CreateGist(postGist); the encoder leaves out the members
\* tagged omitempty that hold their zero value
CreateGist(postGist, rt) ==
    IF Cardinality(DOMAIN postGist.Files) > 0
    THEN Return(Nil, ErrorsNew(<<"There are no files in your Gist. Please add a file to your Gist.">>),
                <<>>, Calls)
    ELSE LET apiUrl  == createUrl(Token, <<"/","g","i","s","t","s">>)
             members == (IF postGist.Description # <<>>
                         THEN [description |-> postGist.Description] ELSE <<>>)
                        @@ (IF postGist.Public THEN [public |-> <<"t","r","u","e">>] ELSE <<>>)
             request == Post(apiUrl, "application/json", CreateReader(members))
         IN  IF rt.failed THEN Return(Nil, rt.err, <<request>>, Calls)
             ELSE DeferClose(Obtained(
                  IF rt.res.StatusCode = 201
                  THEN LET gist == ReadAllUnmarshal(rt.res, [pointer |-> TRUE, type |-> "Gist"])
                       IN  IF ~gist.err.nil THEN Return(Nil, gist.err, <<request>>, Calls)
                           ELSE Return(NonNil(gist.val), NoError, <<request>>, getLimits(Calls, rt.res))
                  ELSE Return(Nil, ErrorsNew(<<"Didn't receive 201 status from Github: ", rt.res.Status>>),
                              <<request>>, Calls)))

\* GitHubClient.readResponse(res, v)
readResponse(res, v) ==
    LET decoded == ReadAllUnmarshal(res, v)
    IN  IF ~decoded.err.nil THEN Return(Nil, decoded.err, <<>>, Calls)
        ELSE Return(NonNil(decoded.val), NoError, <<>>, getLimits(Calls, res))

\* GitHubClient.TestHook(urlData)
TestHook(urlData, rt) ==
    IF ~AssertMapStrings(<<"repo", "id">>, urlData)
    THEN Return(Bool(FALSE), ErrorsNew(<<"There is data missing for the url. Both 'repo' and 'id aree required fields.">>), <<>>, Calls)
    ELSE LET data    == DefaultOwner(urlData)
             apiUrl  == createUrl(Token, <<"/","r","e","p","o","s","/">> \o Lookup(data, "owner")
                                         \o <<"/">> \o Lookup(data, "repo")
                                         \o <<"/","h","o","o","k","s","/">> \o Lookup(data, "id"))
             request == Post(apiUrl, "text/plain", Nil)
         IN  IF rt.failed THEN Return(Bool(FALSE), rt.err, <<request>>, Calls)
             ELSE DeferClose(Obtained(
                  IF rt.res.StatusCode = 204
                  THEN Return(Bool(TRUE), NoError, <<request>>, getLimits(Calls, rt.res))
                  ELSE Return(Bool(FALSE), NoError, <<request>>, getLimits(Calls, rt.res))))

Zipball == <<"z","i","p","b","a","l","l">>

Tarball == <<"t","a","r","b","a","l","l">>

\* the error os.Create returns when the archive file cannot be created
CreateError == ErrorsNew(<<"open github/zip: no such file or directory">>)

\* GitHubClient.GetZip(urlData), created telling whether os.Create succeeded;
\* io.Copy fails when the body cannot be read
GetZip(urlData, created, rt) ==
    IF ~AssertMapString("repo", urlData)
    THEN Return(Bool(FALSE), ErrorsNew(<<"There is missing data in urlData">>), <<>>, Calls)
    ELSE LET data   == DefaultOwner(urlData)
             format == IF Len(Lookup(data, "format")) = 0 THEN Zipball ELSE Lookup(data, "format")
             apiUrl == createUrl(Token, <<"/","r","e","p","o","s","/">> \o Lookup(data, "owner")
                                        \o <<"/">> \o Lookup(data, "repo")
                                        \o <<"/">> \o format \o <<"/">> \o Lookup(data, "branch"))
         IN  IF ~created THEN Return(Bool(FALSE), CreateError, <<>>, Calls)
             ELSE IF rt.failed THEN Return(Bool(FALSE), rt.err, <<Get(apiUrl)>>, Calls)
             ELSE DeferClose(Obtained(
                  IF ~rt.res.Body.readable
                  THEN Return(Bool(FALSE), ReadError, <<Get(apiUrl)>>, getLimits(Calls, rt.res))
                  ELSE Return(Bool(TRUE), NoError, <<Get(apiUrl)>>, getLimits(Calls, rt.res))))

\* GitHubClient.CreateFork(urlData, org).  With a non-empty org the answer of
\* Post is assigned to the err declared inside the if block, so the err
\* tested afterwards is still nil and res is nil when the call failed.
CreateFork(urlData, org, rt) ==
    IF ~AssertMapString("repo", urlData)
    THEN Return(Nil, ErrorsNew(<<"There is missing data in urlData">>), <<>>, Calls)
    ELSE LET data    == DefaultOwner(urlData)
             apiUrl  == createUrl(Token, <<"/","r","e","p","o","s","/">> \o Lookup(data, "owner")
                                         \o <<"/">> \o Lookup(data, "repo") \o <<"/","f","o","r","k","s">>)
             request == IF org # <<>>
                        THEN Post(apiUrl, "application/json", CreateReader([organization |-> <<"o","r","g">>]))
                        ELSE Post(apiUrl, "application/json", Nil)
         IN  IF rt.failed /\ org # <<>> THEN Panic(<<request>>, Calls)
             ELSE IF rt.failed THEN Return(Nil, rt.err, <<request>>, Calls)
             ELSE DeferClose(Obtained(
                  IF rt.res.StatusCode = 202
                  THEN LET fork == ReadAllUnmarshal(rt.res, [pointer |-> TRUE, type |-> "Fork"])
                       IN  IF ~fork.err.nil THEN Return(Nil, fork.err, <<request>>, Calls)
                           ELSE Return(NonNil(fork.val), NoError, <<request>>, getLimits(Calls, rt.res))
                  ELSE Return(Nil, ErrorsNew(<<"Didn't receive 202 status from Github: ", rt.res.Status>>),
                              <<request>>, Calls)))

\* GitHubClient.GetRepoBranch(urlData)
GetRepoBranch(urlData, rt) ==
    IF ~AssertMapStrings(<<"repo", "branch">>, urlData)
    THEN Return(Nil, ErrorsNew(<<"There is missing data in urlData">>), <<>>, Calls)
    ELSE LET data   == DefaultOwner(urlData)
             apiUrl == createUrl(Token, <<"/","r","e","p","o","s","/">> \o Lookup(data, "owner")
                                        \o <<"-">> \o Lookup(data, "repo")
                                        \o <<"/","b","r","a","n","c","h","e","s","/">> \o Lookup(data, "branch"))
         IN  IF rt.failed THEN Return(Nil, rt.err, <<Get(apiUrl)>>, Calls)
             ELSE DeferClose(Obtained(
                  IF rt.res.StatusCode = 200
                  THEN LET branch == ReadAllUnmarshal(rt.res, [pointer |-> TRUE, type |-> "Branch"])
                       IN  IF ~branch.err.nil THEN Return(Nil, branch.err, <<Get(apiUrl)>>, Calls)
                           ELSE Return(NonNil(branch.val), NoError, <<Get(apiUrl)>>, getLimits(Calls, rt.res))
                  ELSE Return(Nil, ErrorsNew(<<"Didn't receive 200 status from Github: ", rt.res.Status>>),
                              <<Get(apiUrl)>>, getLimits(Calls, rt.res))))

\* GitHubClient.GetAPullRequest(urlData)
GetAPullRequest(urlData, rt) ==
    IF ~AssertMapStrings(<<"repo", "number">>, urlData)
    THEN Return(Nil, ErrorsNew(<<"One or more fields are missing and/or do not have content.">>), <<>>, Calls)
    ELSE LET data   == DefaultOwner(urlData)
             apiUrl == createUrl(Token, <<"/","r","e","p","o","s","/">> \o Lookup(data, "owner")
                                        \o <<"/">> \o Lookup(data, "repo")
                                        \o <<"/","p","u","l","l","s","/">> \o Lookup(data, "numbner"))
         IN  IF rt.failed THEN Return(Nil, rt.err, <<Get(apiUrl)>>, Calls)
             ELSE DeferClose(Obtained(
                  IF rt.res.StatusCode = 200
                  THEN LET pullreq == ReadAllUnmarshal(rt.res, [pointer |-> TRUE, type |-> "PullRequest"])
                       IN  IF ~pullreq.err.nil THEN Return(Nil, pullreq.err, <<Get(apiUrl)>>, Calls)
                           ELSE Return(NonNil(pullreq.val), NoError, <<Get(apiUrl)>>, getLimits(Calls, rt.res))
                  ELSE Return(Nil, ErrorsNew(<<"Didn't receive 200 status from Github: ", rt.res.Status>>),
                              <<Get(apiUrl)>>, Calls)))

\* GitHubClient.ListIssueComments(urlData)
ListIssueComments(urlData, rt) ==
    IF ~AssertMapStrings(<<"repo", "number">>, urlData)
    THEN Return(Nil, ErrorsNew(<<"The urlData[\"repo\"] value and/org urlData[\"number\"] value is either empty or doesn't contain any non-whitespace content">>), <<>>, Calls)
    ELSE LET data   == DefaultOwner(urlData)
             apiUrl == createUrl(Token, <<"/","r","e","p","o","s","/">> \o Lookup(data, "")
                                        \o <<"/">> \o Lookup(data, "repo")
                                        \o <<"/","i","s","s","u","e","s","/">> \o Lookup(data, "number")
                                        \o <<"/","c","o","m","m","e","n","t","s">>)
         IN  IF rt.failed THEN Return(Nil, rt.err, <<Get(apiUrl)>>, Calls)
             ELSE DeferClose(Obtained(
                  IF rt.res.StatusCode = 200
                  THEN LET comments == ReadAllUnmarshal(rt.res, [pointer |-> TRUE, type |-> "[]Comment"])
                       IN  IF comments.err = StackExhausted THEN Fatal(<<Get(apiUrl)>>, Calls)
                           ELSE IF ~comments.err.nil THEN Return(Nil, comments.err, <<Get(apiUrl)>>, Calls)
                           ELSE Return(NonNil(comments.val), NoError, <<Get(apiUrl)>>, getLimits(Calls, rt.res))
                  ELSE Return(Nil, ErrorsNew(<<"Didn't receive 200 status from Github: ", rt.res.Status>>),
                              <<Get(apiUrl)>>, Calls)))

\* GitHubClient.getUsers(res), requests being what the caller has sent
getUsers(res, requests, calls) ==
    LET users == ReadAllUnmarshal(res, [pointer |-> TRUE, type |-> "[]GitUser"])
    IN  IF ~users.err.nil THEN Return(Nil, users.err, requests, calls)
        ELSE Return(NonNil(users.val), NoError, requests, getLimits(calls, res))

GetPublicOrgMembers_RetryOnFailure(org, rt, calls) ==
    IF Len(TrimSpace(org)) = 0
    THEN Return(Nil, ErrorsNew(<<"The org data given does not contain any non-whitespace content">>), <<>>, calls)
    ELSE LET apiUrl == createUrl(Token, <<"/","o","r","g","s","/">> \o TrimSpace(org)
                                        \o <<"/","p","u","b","l","i","c","_","m","e","m","b","e","r","s">>)
         IN  IF rt.failed THEN Return(Nil, rt.err, <<Get(apiUrl), Get(apiUrl)>>, calls)
             ELSE DeferClose(Obtained(
                  IF rt.res.StatusCode = 200 THEN getUsers(rt.res, <<Get(apiUrl)>>, calls)
                  ELSE Return(Nil, ErrorsNew(<<"Didn't receive 200 status from Github: ", rt.res.Status>>),
                              <<Get(apiUrl)>>, calls)))

\* GitHubClient.GetPublicOrgMembers(org), on a client whose counters are calls
GetPublicOrgMembers(org, rt, calls) ==
    IF Len(TrimSpace(org)) = 0
    THEN Return(Nil, ErrorsNew(<<"The org data given does not contain any non-whitespace content">>), <<>>, calls)
    ELSE LET apiUrl == createUrl(Token, <<"/","o","r","g","s","/">> \o TrimSpace(org)
                                        \o <<"/","p","u","b","l","i","c","_","m","e","m","b","e","r","s">>)
         IN  IF rt.failed THEN Return(Nil, rt.err, <<Get(apiUrl)>>, calls)
             ELSE DeferClose(Obtained(
                  IF rt.res.StatusCode = 200 THEN getUsers(rt.res, <<Get(apiUrl)>>, calls)
                  ELSE Return(Nil, ErrorsNew(<<"Didn't receive 200 status from Github: ", rt.res.Status>>),
                              <<Get(apiUrl)>>, calls)))

\* GitHubClient.GetOrgMembers(org): on 302 it calls GetPublicOrgMembers, drops
\* what that returns and reports the 302 as an error
GetOrgMembers(org, rts) ==
    IF Len(TrimSpace(org)) = 0
    THEN Return(Nil, ErrorsNew(<<"The org data given does not contain any non-whitespace content">>), <<>>, Calls)
    ELSE LET apiUrl == createUrl(Token, <<"/","o","r","g","s","/">> \o TrimSpace(org)
                                        \o <<"/","m","e","m","b","e","r","s">>)
             first  == rts[1]
         IN  IF first.failed THEN Return(Nil, first.err, <<Get(apiUrl)>>, Calls)
             ELSE DeferClose(Obtained(
                  IF first.res.StatusCode = 200 THEN getUsers(first.res, <<Get(apiUrl)>>, Calls)
                  ELSE IF first.res.StatusCode = 302
                  THEN LET public == GetPublicOrgMembers(TrimSpace(org), rts[2], Calls)
                       IN  [Return(Nil, ErrorsNew(<<"Didn't receive 200 status from Github: ", first.res.Status>>),
                                   <<Get(apiUrl)>> \o public.sent, public.calls)
                               EXCEPT !.bodies = public.bodies]
                  ELSE Return(Nil, ErrorsNew(<<"Didn't receive 200 status from Github: ", first.res.Status>>),
                              <<Get(apiUrl)>>, Calls)))

----------------------------------------------------------------------------
(* The session: a client, and endpoint methods called on it in any order.  *)

\* the owner values a urlData map holds
OwnerValues == {<<>>, <<" ">>, <<"o">>}

\* the urlData maps over the given required keys, with or without an owner
UrlData(keys) ==
    {fields @@ owner : fields \in Maps(keys, MapValues), owner \in Maps({"owner"}, OwnerValues)}

\* one method has run: its arguments, its return values, its requests and
\* the counters it left in the client
Invoke(name, args, r) ==
    /\ method' = name
    /\ input' = args
    /\ output' = [result |-> r.result, err |-> r.err, panic |-> r.panic]
    /\ sent' = r.sent
    /\ bodies' = r.bodies
    /\ CallsLimit' = r.calls.CallsLimit
    /\ CallsRemaining' = r.calls.CallsRemaining
    /\ UNCHANGED <<Token, Login, running, program>>

CallGetRepo ==
    /\ method = "none"
    /\ \E urlData \in UrlData({"repo"}), rt \in Replies :
           Invoke("GetRepo", [urlData |-> urlData, rt |-> rt], GetRepo(urlData, rt))

CallGetRepoKeys ==
    /\ method = "none"
    /\ \E urlData \in UrlData({"repo"}), rt \in Replies :
           Invoke("GetRepoKeys", [urlData |-> urlData, rt |-> rt], GetRepoKeys(urlData, rt))

CallListRepoLabels ==
    /\ method = "none"
    /\ \E urlData \in UrlData({"repo"}), rt \in Replies :
           Invoke("ListRepoLabels", [urlData |-> urlData, rt |-> rt], ListRepoLabels(urlData, rt))

CallGetIssue ==
    /\ method = "none"
    /\ \E urlData \in UrlData({"repo", "number"}), rt \in Replies :
           Invoke("GetIssue", [urlData |-> urlData, rt |-> rt], GetIssue(urlData, rt))

CallIsCollab ==
    /\ method = "none"
    /\ \E urlData \in UrlData({"repo", "user"}), rt \in Replies :
           Invoke("IsCollab", [urlData |-> urlData, rt |-> rt], IsCollab(urlData, rt))

CallCheckAssignees ==
    /\ method = "none"
    /\ \E urlData \in UrlData({"repo", "assignee"}), rt \in Replies :
           Invoke("CheckAssignees", [urlData |-> urlData, rt |-> rt], CheckAssignees(urlData, rt))

CallGetTeamMember ==
    /\ method = "none"
    /\ \E urlData \in Maps({"id", "user"}, MapValues), rt \in Replies :
           Invoke("GetTeamMember", [urlData |-> urlData, rt |-> rt], GetTeamMember(urlData, rt))

CallHasPullMerged ==
    /\ method = "none"
    /\ \E urlData \in UrlData({"repo", "number"}), rt \in Replies :
           Invoke("HasPullMerged", [urlData |-> urlData, rt |-> rt], HasPullMerged(urlData, rt))

\* the user names handed to the follow methods
UserNames == MapValues

CallAreFollowing ==
    /\ method = "none"
    /\ \E user \in UserNames, rt \in Replies :
           Invoke("AreFollowing", [user |-> user, rt |-> rt], AreFollowing(user, rt))

\* the user names handed to FollowUser and UnfollowUser: also one that makes
\* a URL that does not parse
FollowNames == UserNames \cup {<<"%">>}

CallFollowUser ==
    /\ method = "none"
    /\ \E user \in FollowNames, rt \in Replies :
           Invoke("FollowUser", [user |-> user, rt |-> rt], FollowUser(user, rt))

CallUnfollowUser ==
    /\ method = "none"
    /\ \E user \in FollowNames, rt \in Replies :
           Invoke("UnfollowUser", [user |-> user, rt |-> rt], UnfollowUser(user, rt))

\* where a 302 of the membership check points
PublicMemberUrl == <<"h","t","t","p","s",":","/","/","a","p","i",".","g","i","t","h","u","b",".","c","o","m","/","o","r","g","s","/","r","/","p","u","b","l","i","c","_","m","e","m","b","e","r","s","/","r">>

\* the answers to the second request of the membership check
SecondReplies ==
    {[failed |-> TRUE, err |-> ErrorsNew(<<"dial tcp: connection refused">>)]}
        \cup {[failed |-> FALSE,
               res |-> [StatusCode |-> code, Status |-> StatusLine(code), Header |-> header,
                        Body |-> [readable |-> TRUE, json |-> [kind |-> "empty"]]]] :
                 code \in {200, 404, 500}, header \in RateHeaders}

\* a redirect carries a Location header
WithLocation(rt) ==
    IF ~rt.failed /\ rt.res.StatusCode = 302
    THEN [rt EXCEPT !.res.Header = @ @@ [h \in {"Location"} |-> PublicMemberUrl]]
    ELSE rt

\* the answers the transport holds ready for one membership check
ReplySequences ==
    {<<WithLocation(rt)>> : rt \in {r \in Replies : r.failed \/ r.res.StatusCode # 302}}
        \cup {<<WithLocation(rt), rt2>> :
                 rt \in {r \in Replies : ~r.failed /\ r.res.StatusCode = 302}, rt2 \in SecondReplies}

CallCheckOrgMembership ==
    /\ method = "none"
    /\ \E org \in MapValues, user \in MapValues, rts \in ReplySequences :
           Invoke("CheckOrgMembership", [org |-> org, user |-> user, rts |-> rts],
                  CheckOrgMembership(org, user, rts))

\* the postData maps handed to Merge
MergePostData == Maps({"head", "base"}, {<<"b">>})

CallMerge ==
    /\ method = "none"
    /\ \E urlData \in UrlData({"repo"}), postData \in MergePostData, rt \in Replies :
           Invoke("Merge", [urlData |-> urlData, postData |-> postData, rt |-> rt],
                  Merge(urlData, postData, rt))

CallTestHook ==
    /\ method = "none"
    /\ \E urlData \in UrlData({"repo", "id"}), rt \in Replies :
           Invoke("TestHook", [urlData |-> urlData, rt |-> rt], TestHook(urlData, rt))

\* the urlData maps handed to GetZip
ZipUrlData ==
    {urlData @@ format : urlData \in UrlData({"repo", "branch"}), format \in Maps({"format"}, {Tarball})}

\* what os.Create and the transport answer to one GetZip: no request is
\* made when the file cannot be created
ZipAnswers ==
    {[created |-> FALSE, rt |-> [failed |-> TRUE, err |-> CreateError]]}
        \cup {[created |-> TRUE, rt |-> rt] : rt \in Replies}

CallGetZip ==
    /\ method = "none"
    /\ \E urlData \in ZipUrlData, answer \in ZipAnswers :
           Invoke("GetZip", [urlData |-> urlData, created |-> answer.created, rt |-> answer.rt],
                  GetZip(urlData, answer.created, answer.rt))

\* the org argument of CreateFork
ForkOrgs == {<<>>, <<"o">>}

CallCreateFork ==
    /\ method = "none"
    /\ \E urlData \in UrlData({"repo"}), org \in ForkOrgs, rt \in Replies :
           Invoke("CreateFork", [urlData |-> urlData, org |-> org, rt |-> rt],
                  CreateFork(urlData, org, rt))

CallGetRepoBranch ==
    /\ method = "none"
    /\ \E urlData \in UrlData({"repo", "branch"}), rt \in Replies :
           Invoke("GetRepoBranch", [urlData |-> urlData, rt |-> rt], GetRepoBranch(urlData, rt))

CallGetAPullRequest ==
    /\ method = "none"
    /\ \E urlData \in UrlData({"repo", "number"}), rt \in Replies :
           Invoke("GetAPullRequest", [urlData |-> urlData, rt |-> rt], GetAPullRequest(urlData, rt))

\* what the transport answers where a milestone or a comment is expected:
\* any reply, or a 200 whose body is null, an entity, or a list of one entity
EntityReplies ==
    Replies \cup {[failed |-> FALSE,
                   res |-> [StatusCode |-> 200, Status |-> StatusLine(200), Header |-> header,
                            Body |-> [readable |-> TRUE, json |-> json]]] :
                     header \in RateHeaders,
                     json \in {[kind |-> "null"],
                               [kind |-> "object", members |-> [url |-> "https://api.github.com/repos/o/r/e/1"]],
                               [kind |-> "array",
                                elements |-> <<[kind |-> "object",
                                                members |-> [url |-> "https://api.github.com/repos/o/r/e/1"]]>>]}}

CallListIssueComments ==
    /\ method = "none"
    /\ \E urlData \in UrlData({"repo", "number"}), rt \in EntityReplies :
           Invoke("ListIssueComments", [urlData |-> urlData, rt |-> rt], ListIssueComments(urlData, rt))

CallGetPublicOrgMembers ==
    /\ method = "none"
    /\ \E org \in MapValues, rt \in Replies :
           Invoke("GetPublicOrgMembers", [org |-> org, rt |-> rt], GetPublicOrgMembers(org, rt, Calls))

\* the answers the transport holds ready for one GetOrgMembers: a second
\* one for the request that follows a 302
MemberReplySequences ==
    {<<rt>> : rt \in {r \in Replies : r.failed \/ r.res.StatusCode # 302}}
        \cup {<<rt, rt2>> : rt \in {r \in Replies : ~r.failed /\ r.res.StatusCode = 302}, rt2 \in Replies}

CallGetOrgMembers ==
    /\ method = "none"
    /\ \E org \in MapValues, rts \in MemberReplySequences :
           Invoke("GetOrgMembers", [org |-> org, rts |-> rts], GetOrgMembers(org, rts))

\* the destinations handed to readResponse
Destinations == [pointer : BOOLEAN, type : {"Repo", "Keys"}]

CallreadResponse ==
    /\ method = "none"
    /\ \E res \in Responses, v \in Destinations :
           Invoke("readResponse", [res |-> res, v |-> v], readResponse(res, v))

\* what the transport answers to a pull-request merge: any reply, or 405
PullMergeReplies ==
    Replies \cup {[failed |-> FALSE,
                   res |-> [StatusCode |-> 405, Status |-> StatusLine(405), Header |-> header, Body |-> body]] :
                     header \in RateHeaders, body \in Bodies}

CallMergePullRequest ==
    /\ method = "none"
    /\ \E urlData \in UrlData({"repo", "number"}), message \in {<<>>, <<" ", "m">>}, rt \in PullMergeReplies :
           Invoke("MergePullRequest", [urlData |-> urlData, message |-> message, rt |-> rt],
                  MergePullRequest(urlData, message, rt))

CallGetRepoMilestone ==
    /\ method = "none"
    /\ \E urlData \in UrlData({"repo", "number"}), rt \in EntityReplies :
           Invoke("GetRepoMilestone", [urlData |-> urlData, rt |-> rt], GetRepoMilestone(urlData, rt))

CallGetIssueComment ==
    /\ method = "none"
    /\ \E urlData \in UrlData({"repo", "id"}), rt \in EntityReplies :
           Invoke("GetIssueComment", [urlData |-> urlData, rt |-> rt], GetIssueComment(urlData, rt))

CallCreateGist ==
    /\ method = "none"
    /\ \E description \in {<<>>, <<"d">>}, public \in BOOLEAN,
          files \in Maps({"f", "g"}, {[Content |-> <<"c">>, Filename |-> <<>>]}), rt \in Replies :
           LET postGist == [Description |-> description, Public |-> public, Files |-> files]
           IN  Invoke("CreateGist", [postGist |-> postGist, rt |-> rt], CreateGist(postGist, rt))

Init == NewGitHubClient(SessionToken, SessionLogin) /\ Idle

Next ==
    \/ CallGetRepo
    \/ CallGetRepoKeys
    \/ CallListRepoLabels
    \/ CallGetIssue
    \/ CallIsCollab
    \/ CallCheckAssignees
    \/ CallGetTeamMember
    \/ CallHasPullMerged
    \/ CallAreFollowing
    \/ CallFollowUser
    \/ CallUnfollowUser
    \/ CallCheckOrgMembership
    \/ CallMerge
    \/ CallTestHook
    \/ CallGetZip
    \/ CallCreateFork
    \/ CallGetRepoBranch
    \/ CallGetAPullRequest
    \/ CallListIssueComments
    \/ CallGetPublicOrgMembers
    \/ CallGetOrgMembers
    \/ CallreadResponse
    \/ CallMergePullRequest
    \/ CallGetRepoMilestone
    \/ CallGetIssueComment
    \/ CallCreateGist
    \/ CallerContinues

Spec == Init /\ [][Next]_vars

----------------------------------------------------------------------------
(* The create methods that write their JSON body by hand.                  *)

\* strings.NewReader(text) as a request body
NewReader(text) == [kind |-> "text", text |-> text]

\* GitHubClient.CreateIssueComment(urlData, commentBody)
CreateIssueComment(urlData, commentBody, rt) ==
    LET body == TrimSpace(commentBody)
    IN  IF Len(body) = 0
        THEN Return(Nil, ErrorsNew(<<"The comment body does not contain any non-whitespace content.">>), <<>>, Calls)
        ELSE IF ~AssertMapStrings(<<"repo", "number">>, urlData)
        THEN Return(Nil, ErrorsNew(<<"The urlData[\"repo\"] value and/org urlData[\"number\"] value is either empty or doesn't contain any non-whitespace content">>), <<>>, Calls)
        ELSE LET data     == DefaultOwner(urlData)
                 jsonText == <<"{"," ","\"","b","o","d","y","\"",":"," ","\"">> \o body \o <<"\""," ","}">>
                 apiUrl   == createUrl(Token, <<"/","r","e","p","o","s","/">> \o Lookup(data, "owner")
                                              \o <<"/">> \o Lookup(data, "repo")
                                              \o <<"/","i","s","s","u","e","s","/">> \o Lookup(data, "number")
                                              \o <<"/","c","o","m","m","e","n","t","s">>)
                 request  == Post(apiUrl, "application/json", NewReader(jsonText))
             IN  IF rt.failed THEN Return(Nil, rt.err, <<request>>, Calls)
                 ELSE DeferClose(Obtained(
                      IF rt.res.StatusCode = 200
                      THEN LET comment == ReadAllUnmarshal(rt.res, [pointer |-> TRUE, type |-> "Comment"])
                           IN  IF comment.err = StackExhausted THEN Fatal(<<request>>, Calls)
                               ELSE IF ~comment.err.nil THEN Return(Nil, comment.err, <<request>>, Calls)
                               ELSE Return(NonNil(comment.val), NoError, <<request>>, getLimits(Calls, rt.res))
                      ELSE Return(Nil, ErrorsNew(<<"Didn't receive 200 status from Github: ", rt.res.Status>>),
                                  <<request>>, Calls)))

CreateKey_TitleNotDefaulted(key, title, rt) ==
    IF key = <<>> THEN Return(Nil, ErrorsNew(<<"No data for the key">>), <<>>, Calls)
    ELSE LET jsonText == <<"{"," ","\"","k","e","y","\"",":"," ","\"">> \o key \o <<"\"",","," ","\"","t","i","t","l","e","\"",":"," ","\"">> \o title \o <<"\""," ","}">>
             apiUrl   == createUrl(Token, <<"/","u","s","e","r","/","k","e","y","s">>)
             request  == Post(apiUrl, "application/json", NewReader(jsonText))
         IN  IF rt.failed THEN Return(Nil, rt.err, <<request>>, Calls)
             ELSE DeferClose(Obtained(
                  IF rt.res.StatusCode = 201
                  THEN LET gitKey == ReadAllUnmarshal(rt.res, [pointer |-> TRUE, type |-> "GitKey"])
                       IN  IF ~gitKey.err.nil THEN Return(Nil, gitKey.err, <<request>>, Calls)
                           ELSE Return(NonNil(gitKey.val), NoError, <<request>>, getLimits(Calls, rt.res))
                  ELSE Return(Nil, ErrorsNew(<<"Didn't receive 201 status from Github: ", rt.res.Status>>),
                              <<request>>, Calls)))

\* GitHubClient.CreateKey(key, title)
CreateKey(key, title, rt) ==
    IF key = <<>> THEN Return(Nil, ErrorsNew(<<"No data for the key">>), <<>>, Calls)
    ELSE LET named    == IF title = <<>> THEN <<"C","o","d","e","H","u","b">> ELSE title
             jsonText == <<"{"," ","\"","k","e","y","\"",":"," ","\"">> \o key \o <<"\"",","," ","\"","t","i","t","l","e","\"",":"," ","\"">> \o named \o <<"\""," ","}">>
             apiUrl   == createUrl(Token, <<"/","u","s","e","r","/","k","e","y","s">>)
             request  == Post(apiUrl, "application/json", NewReader(jsonText))
         IN  IF rt.failed THEN Return(Nil, rt.err, <<request>>, Calls)
             ELSE DeferClose(Obtained(
                  IF rt.res.StatusCode = 201
                  THEN LET gitKey == ReadAllUnmarshal(rt.res, [pointer |-> TRUE, type |-> "GitKey"])
                       IN  IF ~gitKey.err.nil THEN Return(Nil, gitKey.err, <<request>>, Calls)
                           ELSE Return(NonNil(gitKey.val), NoError, <<request>>, getLimits(Calls, rt.res))
                  ELSE Return(Nil, ErrorsNew(<<"Didn't receive 201 status from Github: ", rt.res.Status>>),
                              <<request>>, Calls)))

\* GitHubClient.CreateRepoKey(urlData, key), key pointing to a map
CreateRepoKey(urlData, key, rt) ==
    IF ~AssertMapStrings(<<"repo", "id">>, urlData)
    THEN Return(Nil, ErrorsNew(<<"There is missing data in urlData">>), <<>>, Calls)
    ELSE LET data     == DefaultOwner(urlData)
             jsonText == <<"{"," ","\"","k","e","y","\"",":"," ","\"">> \o Lookup(key, "key") \o <<"\"",","," ","\"","t","i","t","l","e","\"",":"," ","\"">> \o Lookup(key, "title") \o <<"\""," ","}">>
             apiUrl   == createUrl(Token, <<"/","r","e","p","o","s","/">> \o Lookup(data, "owner")
                                          \o <<"/">> \o Lookup(data, "repo") \o <<"/","k","e","y","s">>)
             request  == Post(apiUrl, "application/json", NewReader(jsonText))
         IN  IF rt.failed THEN Return(Nil, rt.err, <<request>>, Calls)
             ELSE DeferClose(Obtained(
                  IF rt.res.StatusCode = 201
                  THEN LET repoKey == ReadAllUnmarshal(rt.res, [pointer |-> TRUE, type |-> "Key"])
                       IN  IF ~repoKey.err.nil THEN Return(Nil, repoKey.err, <<request>>, Calls)
                           ELSE Return(NonNil(repoKey.val), NoError, <<request>>, getLimits(Calls, rt.res))
                  ELSE Return(Nil, ErrorsNew(<<"Didn't receive 201 status from Github: ", rt.res.Status>>),
                              <<request>>, Calls)))

\* the field values a caller hands over: short texts with quotes and
\* backslashes, one with a line break, one that closes the string and goes on
FieldValues ==
    Strs({"a", "\"", "\\"}, MaxFieldLen)
        \cup {<<"a", "\n">>, <<"a","\"",",","\"","x","\"",":","\"","a">>}

\* the answers of the transport to a create request
CreateReplies ==
    {rt \in Replies : rt.failed \/ (rt.res.StatusCode \in {200, 201, 404} /\ rt.res.Header = <<>>)}

CallCreateIssueComment ==
    /\ method = "none"
    /\ \E urlData \in UrlData({"repo", "number"}), commentBody \in FieldValues \cup {<<" ", "a">>},
          rt \in CreateReplies :
           Invoke("CreateIssueComment", [urlData |-> urlData, commentBody |-> commentBody, rt |-> rt],
                  CreateIssueComment(urlData, commentBody, rt))

CallCreateKey ==
    /\ method = "none"
    /\ \E key \in FieldValues, title \in FieldValues, rt \in CreateReplies :
           Invoke("CreateKey", [key |-> key, title |-> title, rt |-> rt], CreateKey(key, title, rt))

CallCreateRepoKey ==
    /\ method = "none"
    /\ \E urlData \in Maps({"repo", "id"}, MapValues), key \in Maps({"key", "title"}, FieldValues),
          rt \in CreateReplies :
           Invoke("CreateRepoKey", [urlData |-> urlData, key |-> key, rt |-> rt],
                  CreateRepoKey(urlData, key, rt))

NextCreate ==
    \/ CallCreateIssueComment
    \/ CallCreateKey
    \/ CallCreateRepoKey
    \/ CallerContinues

SpecCreate == Init /\ [][NextCreate]_vars

----------------------------------------------------------------------------
(* The travis-deps command: main loads its configuration, builds a client  *)
(* and asks for the keys of each dep in turn.                              *)

MaxDeps == 2

\* the entries of conf.Deps
DepNames == {<<"o","/","r">>, <<"r">>, <<"/","r">>, <<"o","/">>}

\* strings.SplitN(s, sep, n) for n > 0 and a one-character sep
RECURSIVE SplitN(_, _, _)
SplitN(s, sep, n) ==
    LET i == StringsIndex(s, sep)
    IN  IF n = 1 \/ i = -1 THEN <<s>>
        ELSE <<SubSeq(s, 1, i)>> \o SplitN(SubSeq(s, i + 2, Len(s)), sep, n - 1)

\* main up to the loop: the configuration is loaded and the client built
InitMain ==
    /\ NewGitHubClient(SessionToken, SessionLogin)
    /\ method = "none"
    /\ input = <<>>
    /\ output = <<>>
    /\ sent = <<>>
    /\ bodies = <<>>
    /\ running = NoneRunning
    /\ \E deps \in Strs(DepNames, MaxDeps) :
           program = [pc |-> "range", Deps |-> deps, i |-> 0, log |-> <<>>, wire |-> <<>>]

RangeDeps_ContinuesAfterError ==
    /\ program.pc = "range"
    /\ program.i < Len(program.Deps)
    /\ LET k     == program.i + 1
           repo  == program.Deps[k]
           parts == SplitN(repo, "/", 2)
       IN  IF Len(parts) # 2
           THEN /\ program' = [program EXCEPT !.i = k,
                                  !.log = @ \o <<[level |-> "info", text |-> "repo:", dep |-> k],
                                                 [level |-> "warn", text |-> "invalid repo:", dep |-> k]>>]
                /\ UNCHANGED <<CallsLimit, CallsRemaining, Token, Login, method, input,
                               output, sent, bodies, running>>
           ELSE \E rt \in Replies :
                    LET urlData == [owner |-> parts[1], repo |-> parts[2]]
                        r       == GetRepoKeys(urlData, rt)
                    IN  /\ method' = "GetRepoKeys"
                        /\ input' = [urlData |-> urlData, rt |-> rt]
                        /\ output' = [result |-> r.result, err |-> r.err, panic |-> r.panic]
                        /\ sent' = r.sent
                        /\ bodies' = r.bodies
                        /\ CallsLimit' = r.calls.CallsLimit
                        /\ CallsRemaining' = r.calls.CallsRemaining
                        /\ program' = [program EXCEPT
                               !.i = k,
                               !.log = @ \o <<[level |-> "info", text |-> "repo:", dep |-> k],
                                              IF r.err.nil THEN [level |-> "info", text |-> "GetRepoKeys:", dep |-> k]
                                              ELSE [level |-> "warn", text |-> "GetRepoKeys failed:", dep |-> k]>>,
                               !.wire = @ \o [j \in 1..Len(r.sent) |-> [dep |-> k, request |-> r.sent[j]]]]
                        /\ UNCHANGED <<Token, Login, running>>

\* one pass of for _, repo := range conf.Deps
RangeDeps ==
    /\ program.pc = "range"
    /\ program.i < Len(program.Deps)
    /\ LET k     == program.i + 1
           repo  == program.Deps[k]
           parts == SplitN(repo, "/", 2)
       IN  IF Len(parts) # 2
           THEN /\ program' = [program EXCEPT !.i = k,
                                  !.log = @ \o <<[level |-> "info", text |-> "repo:", dep |-> k],
                                                 [level |-> "warn", text |-> "invalid repo:", dep |-> k]>>]
                /\ UNCHANGED <<CallsLimit, CallsRemaining, Token, Login, method, input,
                               output, sent, bodies, running>>
           ELSE \E rt \in Replies :
                    LET urlData == [owner |-> parts[1], repo |-> parts[2]]
                        r       == GetRepoKeys(urlData, rt)
                    IN  /\ method' = "GetRepoKeys"
                        /\ input' = [urlData |-> urlData, rt |-> rt]
                        /\ output' = [result |-> r.result, err |-> r.err, panic |-> r.panic]
                        /\ sent' = r.sent
                        /\ bodies' = r.bodies
                        /\ CallsLimit' = r.calls.CallsLimit
                        /\ CallsRemaining' = r.calls.CallsRemaining
                        /\ program' = [program EXCEPT
                               !.i = k,
                               !.pc = IF r.err.nil THEN "range" ELSE "returned",
                               !.log = @ \o <<[level |-> "info", text |-> "repo:", dep |-> k],
                                              IF r.err.nil THEN [level |-> "info", text |-> "GetRepoKeys:", dep |-> k]
                                              ELSE [level |-> "warn", text |-> "GetRepoKeys failed:", dep |-> k]>>,
                               !.wire = @ \o [j \in 1..Len(r.sent) |-> [dep |-> k, request |-> r.sent[j]]]]
                        /\ UNCHANGED <<Token, Login, running>>

\* the loop has visited every dep: main returns
mainReturns ==
    /\ program.pc = "range"
    /\ program.i = Len(program.Deps)
    /\ program' = [program EXCEPT !.pc = "returned"]
    /\ UNCHANGED <<CallsLimit, CallsRemaining, Token, Login, method, input, output, sent,
                   bodies, running>>

NextMain == RangeDeps \/ mainReturns

SpecMain == InitMain /\ [][NextMain]_vars

----------------------------------------------------------------------------
(* Properties of the endpoint methods.                                     *)

\* the field k of map m is absent, empty or all whitespace
Blank(m, k) ==
    \/ k \notin DOMAIN m
    \/ \A j \in 1..Len(m[k]) : m[k][j] \in {" ", "\t", "\n", "\r"}

\* the urlData fields a method needs to build its path
RequiredFields ==
    [GetIssue       |-> {"repo", "number"},
     IsCollab       |-> {"repo", "user"},
     GetTeamMember  |-> {"id", "user"},
     CheckAssignees |-> {"repo", "assignee"},
     HasPullMerged  |-> {"repo", "number"}]

\* C1: a method that requires several urlData fields (GetIssue: repo and
\* number, IsCollab: repo and user, GetTeamMember: id and user), called with
\* a map in which one of them is absent or blank, returns an error and
\* issues no request.
C1_SeveralFieldsValidated ==
    (/\ method \in {"GetIssue", "IsCollab", "GetTeamMember"}
     /\ \E k \in RequiredFields[method] : Blank(input.urlData, k))
        => (~output.err.nil /\ sent = <<>>)

\* C2: a method that requires the single urlData field repo (GetRepo,
\* GetRepoKeys, ListRepoLabels), called with a map where repo is absent,
\* empty or blank, returns an error and a nil result, issues no request and
\* leaves CallsLimit and CallsRemaining as they were.
C2_SingleFieldValidated ==
    [][(/\ method' \in {"GetRepo", "GetRepoKeys", "ListRepoLabels"}
        /\ Blank(input'.urlData, "repo"))
           => /\ ~output'.err.nil
              /\ output'.result = [nil |-> TRUE]
              /\ sent' = <<>>
              /\ CallsLimit' = CallsLimit
              /\ CallsRemaining' = CallsRemaining]_vars

\* GetRepoKeys was called with a whitespace-only repo and failed without a request
C2_Witness_BlankRepo ==
    /\ method = "GetRepoKeys"
    /\ "repo" \in DOMAIN input.urlData
    /\ input.urlData["repo"] = <<" ">>
    /\ ~input.rt.failed
    /\ input.rt.res.StatusCode = 200
    /\ ~output.err.nil
    /\ sent = <<>>

\* the arguments of an existence check name every path segment
ExistenceCheckInputsValid ==
    CASE method = "IsCollab"       -> \A k \in {"repo", "user"} : ~Blank(input.urlData, k)
      [] method = "CheckAssignees" -> \A k \in {"repo", "assignee"} : ~Blank(input.urlData, k)
      [] method = "AreFollowing"   -> \E j \in 1..Len(input.user) : input.user[j] \notin {" ", "\t", "\n", "\r"}

\* C4: an existence check (IsCollab, CheckAssignees, AreFollowing) with valid
\* inputs returns (true, nil) on 204, (false, nil) on 404, and on any other
\* status false with an error whose message contains the status line.
C4_ExistenceCheckThreeWay ==
    (/\ method \in {"IsCollab", "CheckAssignees", "AreFollowing"}
     /\ ExistenceCheckInputsValid
     /\ ~input.rt.failed)
        => LET res == input.rt.res
           IN  /\ res.StatusCode = 204 => (output.result = Bool(TRUE) /\ output.err.nil)
               /\ res.StatusCode = 404 => (output.result = Bool(FALSE) /\ output.err.nil)
               /\ res.StatusCode \notin {204, 404} =>
                      /\ output.result = Bool(FALSE)
                      /\ ~output.err.nil
                      /\ \E i \in 1..Len(output.err.text) : output.err.text[i] = res.Status

\* IsCollab with valid inputs got a 500 and reported its status line
C4_Witness_OtherStatus ==
    /\ method = "IsCollab"
    /\ ExistenceCheckInputsValid
    /\ ~input.rt.failed
    /\ input.rt.res.StatusCode = 500
    /\ output.result = Bool(FALSE)
    /\ output.err.text[Len(output.err.text)] = "500 Internal Server Error"

\* C5: HasPullMerged with valid inputs returns (true, nil) on a 204, which
\* carries no body, and (false, nil) on a 404.
C5_HasPullMergedThreeWay ==
    (/\ method = "HasPullMerged"
     /\ \A k \in {"repo", "number"} : ~Blank(input.urlData, k)
     /\ ~input.rt.failed
     /\ input.rt.res.Body = [readable |-> TRUE, json |-> [kind |-> "empty"]])
        => /\ input.rt.res.StatusCode = 204 => (output.result = Bool(TRUE) /\ output.err.nil)
           /\ input.rt.res.StatusCode = 404 => (output.result = Bool(FALSE) /\ output.err.nil)

\* Merge was given a repo, and a head and a base to merge
MergeInputsValid ==
    /\ ~Blank(input.urlData, "repo")
    /\ \A k \in {"head", "base"} : ~Blank(input.postData, k)

\* C6: Merge with valid inputs returns, on a 201 whose body is a JSON commit,
\* that commit decoded and a nil error; on a 204 a nil result and a nil error.
C6_MergeCreatedOrNothingToMerge ==
    (/\ method = "Merge"
     /\ MergeInputsValid
     /\ ~input.rt.failed)
        => LET res == input.rt.res
           IN  /\ (/\ res.StatusCode = 201
                   /\ res.Body.readable
                   /\ res.Body.json.kind = "object"
                   /\ "sha" \in DOMAIN res.Body.json.members)
                      => /\ ~output.result.nil
                         /\ output.result.val["sha"] = res.Body.json.members["sha"]
                         /\ output.result.val["url"] = res.Body.json.members["url"]
                         /\ output.err.nil
               /\ res.StatusCode = 204 => (output.result = [nil |-> TRUE] /\ output.err.nil)

\* Merge with valid inputs got a 201 with a commit and returned it
C6_Witness_Created ==
    /\ method = "Merge"
    /\ MergeInputsValid
    /\ ~input.rt.failed
    /\ input.rt.res.StatusCode = 201
    /\ ~output.result.nil
    /\ output.result.val["sha"] = "6dcb09b"
    /\ output.err.nil

\* C7: Merge with valid inputs returns, on a 409 or 404 whose body is a JSON
\* object with a message, a nil result and an error whose text is that message.
C7_MergeConflictMessage ==
    (/\ method = "Merge"
     /\ MergeInputsValid
     /\ ~input.rt.failed
     /\ input.rt.res.StatusCode \in {409, 404}
     /\ input.rt.res.Body.readable
     /\ input.rt.res.Body.json.kind = "object"
     /\ "message" \in DOMAIN input.rt.res.Body.json.members)
        => /\ output.result = [nil |-> TRUE]
           /\ ~output.err.nil
           /\ output.err.text = <<input.rt.res.Body.json.members["message"]>>

EndpointMethods ==
    {"GetRepo", "GetRepoKeys", "ListRepoLabels", "GetIssue", "IsCollab", "CheckAssignees",
     "GetTeamMember", "HasPullMerged", "AreFollowing", "FollowUser", "UnfollowUser",
     "CheckOrgMembership", "Merge"}

\* the response the last call ended on
LastResponse ==
    IF method = "CheckOrgMembership" THEN input.rts[Len(input.rts)].res ELSE input.rt.res

\* C9: whenever an endpoint call returns without error on a response that
\* carries both rate-limit headers with integer values, CallsLimit and
\* CallsRemaining equal those values afterwards.
C9_CountersRefreshedOnSuccess ==
    (/\ method \in EndpointMethods
     /\ output.err.nil
     /\ IsInteger(HeaderGet(LastResponse.Header, "X-RateLimit-Remaining"))
     /\ IsInteger(HeaderGet(LastResponse.Header, "X-RateLimit-Limit")))
        => /\ CallsRemaining = IntegerValue(HeaderGet(LastResponse.Header, "X-RateLimit-Remaining"))
           /\ CallsLimit = IntegerValue(HeaderGet(LastResponse.Header, "X-RateLimit-Limit"))

\* the methods that consume one answer of the transport: input.rt
OneReplyMethods ==
    {"GetRepo", "GetRepoKeys", "ListRepoLabels", "GetIssue", "IsCollab", "CheckAssignees",
     "GetTeamMember", "HasPullMerged", "AreFollowing", "FollowUser", "UnfollowUser", "Merge",
     "TestHook", "GetZip", "CreateFork", "GetRepoBranch", "GetAPullRequest",
     "ListIssueComments", "GetPublicOrgMembers"}

\* the status codes each method is documented to handle
AcceptedStatus(m) ==
    CASE m \in {"GetRepo", "GetRepoKeys", "ListRepoLabels", "GetIssue", "GetRepoBranch",
                "GetAPullRequest", "ListIssueComments", "GetPublicOrgMembers", "GetZip"} -> {200}
      [] m \in {"IsCollab", "CheckAssignees", "GetTeamMember", "HasPullMerged", "AreFollowing"} -> {204, 404}
      [] m \in {"FollowUser", "UnfollowUser", "TestHook"} -> {204}
      [] m = "CreateFork" -> {202}
      [] m = "Merge" -> {201, 204, 404, 409}

\* the last call received a response from the transport
Answered == sent # <<>> /\ ~input.rt.failed

\* C12: for every endpoint method, a response whose status code is not in
\* the method's accepted set makes it return a non-nil error whose text
\* carries the response's status line, with a nil/false result.
C12_UnexpectedStatusIsError ==
    (/\ method \in OneReplyMethods
     /\ Answered
     /\ input.rt.res.StatusCode \notin AcceptedStatus(method))
        => /\ ~output.err.nil
           /\ \E i \in 1..Len(output.err.text) : output.err.text[i] = input.rt.res.Status
           /\ output.result \in {Nil, Bool(FALSE)}

\* the methods that decode the body of the response with the expected status
DecodingMethods ==
    {"GetRepo", "GetRepoKeys", "ListRepoLabels", "GetIssue", "HasPullMerged", "Merge",
     "CreateFork", "GetRepoBranch", "GetAPullRequest", "ListIssueComments", "GetPublicOrgMembers"}

\* the status on which each method reads the body into its result
ExpectedStatus(m) ==
    CASE m \in {"GetRepo", "GetRepoKeys", "ListRepoLabels", "GetIssue", "GetRepoBranch",
                "GetAPullRequest", "ListIssueComments", "GetPublicOrgMembers"} -> 200
      [] m = "Merge" -> 201
      [] m = "CreateFork" -> 202
      [] m = "HasPullMerged" -> 204

\* the JSON value the result type of each method is decoded from
TargetKind(m) ==
    IF m \in {"GetRepoKeys", "ListRepoLabels", "HasPullMerged", "ListIssueComments", "GetPublicOrgMembers"}
    THEN "array" ELSE "object"

TwoReplyMethods == {"CheckOrgMembership", "GetOrgMembers"}

\* C14: when the transport call or the client-side request construction
\* fails, the endpoint method returns that same error with a nil/false
\* result, does not dereference the missing response, and leaves the
\* counters unchanged; for every endpoint method, including CreateFork with
\* a non-empty org and FollowUser.
C14_TransportErrorPropagated ==
    [][LET oneFailed ==
               /\ method' \in OneReplyMethods
               /\ sent' # <<>>
               /\ input'.rt.failed
           lastFailed ==
               /\ method' \in TwoReplyMethods
               /\ sent' # <<>>
               /\ input'.rts[Len(sent')].failed
           notConstructed ==
               /\ method' \in {"FollowUser", "UnfollowUser"}
               /\ ~UrlParses(createUrl(Token, <<"/","u","s","e","r","/","f","o","l","l","o","w","i","n","g","/">> \o input'.user))
       IN  /\ oneFailed
               => /\ ~output'.panic
                  /\ output'.err = input'.rt.err
                  /\ output'.result \in {Nil, Bool(FALSE)}
                  /\ CallsLimit' = CallsLimit
                  /\ CallsRemaining' = CallsRemaining
           /\ lastFailed
               => /\ ~output'.panic
                  /\ output'.err = input'.rts[Len(sent')].err
                  /\ output'.result \in {Nil, Str("")}
                  /\ CallsLimit' = CallsLimit
                  /\ CallsRemaining' = CallsRemaining
           /\ notConstructed
               => /\ ~output'.panic
                  /\ ~output'.err.nil
                  /\ output'.result = Bool(FALSE)
                  /\ CallsLimit' = CallsLimit
                  /\ CallsRemaining' = CallsRemaining]_vars

\* text is the final part of url
HasSuffix(url, text) ==
    /\ Len(url) >= Len(text)
    /\ SubSeq(url, Len(url) - Len(text) + 1, Len(url)) = text

\* url begins with text
HasPrefix(url, text) ==
    /\ Len(url) >= Len(text)
    /\ SubSeq(url, 1, Len(text)) = text

\* the query parameter that carries the session's token
TokenParameter == <<"a","c","c","e","s","s","_","t","o","k","e","n","=">> \o QueryEscape(Token)

\* C15: every HTTP request issued by the client, in any method and on any
\* branch, targets the fixed API base host and carries the session's access
\* token as the access_token query parameter.
C15_EveryRequestCarriesToken ==
    \A i \in 1..Len(sent) :
        /\ HasPrefix(sent[i].url, APIURL \o <<"/">>)
        /\ \/ HasSuffix(sent[i].url, <<"?">> \o TokenParameter)
           \/ HasSuffix(sent[i].url, <<"&">> \o TokenParameter)

\* the first request of the last call was answered with a 302
FirstAnswerIsRedirect ==
    /\ method \in TwoReplyMethods
    /\ ~input.rts[1].failed
    /\ input.rts[1].res.StatusCode = 302

\* C16 as stated: every endpoint method performs at most one round-trip per
\* invocation; CheckOrgMembership is the only method that may issue a
\* second request, and only after a 302 answer.
C16_OnlyMembershipCheckAsksTwice ==
    \/ Len(sent) <= 1
    \/ /\ Len(sent) = 2
       /\ method = "CheckOrgMembership"
       /\ FirstAnswerIsRedirect

\* C16: every endpoint method performs at most one round-trip per invocation
\* and never repeats a request; CheckOrgMembership and GetOrgMembers are the
\* only methods that may issue a second request, each only after a 302
\* answer to the first, and no method issues more than two.
C16_SecondRequestOnlyAfterRedirect ==
    \/ Len(sent) <= 1
    \/ /\ Len(sent) = 2
       /\ FirstAnswerIsRedirect
       /\ sent[2] # sent[1]

\* GetOrgMembers was answered 302 and asked the public members endpoint
C16_Witness_MembersAskedTwice ==
    /\ method = "GetOrgMembers"
    /\ FirstAnswerIsRedirect
    /\ Len(sent) = 2
    /\ sent[2].url = createUrl(Token, <<"/","o","r","g","s","/">> \o TrimSpace(input.org)
                                      \o <<"/","p","u","b","l","i","c","_","m","e","m","b","e","r","s">>)

\* C18: every HTTP response obtained by an endpoint method has its body
\* closed by the time the method returns, on every exit path (success,
\* unexpected status, read/decode failure, and the redirect branch of the
\* membership check): no method returns with an open response body.
C18_NoBodyLeftOpen ==
    method # "none" => \A i \in 1..Len(bodies) : bodies[i] = "closed"

\* the urlData fields each repo-scoped method needs besides the owner
RepoScopedFields ==
    [GetRepo           |-> {"repo"},
     GetRepoKeys       |-> {"repo"},
     ListRepoLabels    |-> {"repo"},
     Merge             |-> {"repo"},
     CreateFork        |-> {"repo"},
     GetZip            |-> {"repo"},
     GetIssue          |-> {"repo", "number"},
     IsCollab          |-> {"repo", "user"},
     CheckAssignees    |-> {"repo", "assignee"},
     HasPullMerged     |-> {"repo", "number"},
     TestHook          |-> {"repo", "id"},
     GetRepoBranch     |-> {"repo", "branch"},
     GetAPullRequest   |-> {"repo", "number"},
     ListIssueComments |-> {"repo", "number"}]

\* the last call was a repo-scoped method given everything it needs
RepoScopedCall ==
    /\ method \in DOMAIN RepoScopedFields
    /\ \A k \in RepoScopedFields[method] : ~Blank(input.urlData, k)
    /\ method = "Merge" => MergeInputsValid
    /\ method = "GetZip" => input.created

\* the path segment of url that follows /repos/
OwnerSegment(url) ==
    LET rest == SubSeq(url, Len(APIURL) + 8, Len(url))
        end  == StringsIndex(rest, "/")
    IN  IF end = -1 THEN rest ELSE SubSeq(rest, 1, end)

\* C19: for a repo-scoped endpoint method, when urlData has no non-blank
\* "owner" the request is issued with the client's Login as the owner path
\* segment, without a validation failure; when urlData has a non-blank
\* "owner", that owner is the path segment.
C19_OwnerDefaultsToLogin ==
    RepoScopedCall
        => /\ sent # <<>>
           /\ HasPrefix(sent[1].url, APIURL \o <<"/","r","e","p","o","s","/">>)
           /\ OwnerSegment(sent[1].url) =
                  IF Blank(input.urlData, "owner") THEN Login ELSE input.urlData["owner"]

\* the owner the last call's path is documented to name
PathOwner == IF Blank(input.urlData, "owner") THEN Login ELSE input.urlData["owner"]

\* the documented path of the last call, its placeholders filled from urlData
DocumentedPath ==
    LET repos == <<"/","r","e","p","o","s","/">> \o PathOwner \o <<"/">> \o input.urlData["repo"]
    IN  CASE method = "GetRepoBranch" ->
                 repos \o <<"/","b","r","a","n","c","h","e","s","/">> \o input.urlData["branch"]
          [] method = "GetAPullRequest" ->
                 repos \o <<"/","p","u","l","l","s","/">> \o input.urlData["number"]
          [] method = "ListIssueComments" ->
                 repos \o <<"/","i","s","s","u","e","s","/">> \o input.urlData["number"]
                       \o <<"/","c","o","m","m","e","n","t","s">>

\* C20: each endpoint method builds its request path by substituting the
\* validated (or defaulted) urlData fields into its documented template:
\* GetRepoBranch requests /repos/<owner>/<repo>/branches/<branch>,
\* GetAPullRequest /repos/<owner>/<repo>/pulls/<number>, ListIssueComments
\* /repos/<owner>/<repo>/issues/<number>/comments, every placeholder filled
\* by the corresponding map value.
C20_DocumentedPathRequested ==
    (/\ method \in {"GetRepoBranch", "GetAPullRequest", "ListIssueComments"}
     /\ RepoScopedCall)
        => /\ sent # <<>>
           /\ sent[1].url = createUrl(Token, DocumentedPath)

\* the response to the i-th request of the last membership check
Reply(i) == input.rts[i].res

\* C21: CheckOrgMembership with a non-blank org returns "member" on 204 and
\* "non-member" on 404; on 302 it asks the redirect target and returns
\* "member" if that answers 200 and "unconfirmed" if it answers 404; every
\* other status, of the first or the second response, yields an empty
\* result and a non-nil error.
C21_MembershipOutcomes ==
    (/\ method = "CheckOrgMembership"
     /\ Len(TrimSpace(input.org)) > 0
     /\ ~input.rts[1].failed)
        => LET first == Reply(1).StatusCode
           IN  /\ first = 204 => (output.result = Str("member") /\ output.err.nil)
               /\ first = 404 => (output.result = Str("non-member") /\ output.err.nil)
               /\ first \notin {204, 404, 302} => (output.result = Str("") /\ ~output.err.nil)
               /\ (first = 302 /\ ~input.rts[2].failed)
                      => LET second == Reply(2).StatusCode
                         IN  /\ Len(sent) = 2
                             /\ sent[2].url = HeaderGet(Reply(1).Header, "Location")
                             /\ second = 200 => (output.result = Str("member") /\ output.err.nil)
                             /\ second = 404 => (output.result = Str("unconfirmed") /\ output.err.nil)
                             /\ second \notin {200, 404} => (output.result = Str("") /\ ~output.err.nil)

\* the first request was answered 302, the second 404, and the caller got
\* "unconfirmed"
C21_Witness_Unconfirmed ==
    /\ method = "CheckOrgMembership"
    /\ Len(TrimSpace(input.org)) > 0
    /\ Len(input.rts) = 2
    /\ ~input.rts[1].failed
    /\ Reply(1).StatusCode = 302
    /\ ~input.rts[2].failed
    /\ Reply(2).StatusCode = 404
    /\ output.result = Str("unconfirmed")
    /\ output.err.nil

\* C22: GetOrgMembers, when the members endpoint answers 302, queries the
\* public-members endpoint and returns that public members list (and that
\* call's error) to the caller.
C22_PublicMembersReturned ==
    (/\ method = "GetOrgMembers"
     /\ Len(TrimSpace(input.org)) > 0
     /\ ~input.rts[1].failed
     /\ input.rts[1].res.StatusCode = 302)
        => LET public == GetPublicOrgMembers(TrimSpace(input.org), input.rts[2], Calls)
           IN  /\ Len(sent) = 2
               /\ sent[2] = public.sent[1]
               /\ output.result = public.result
               /\ output.err = public.err

\* the last call was MergePullRequest with a repo and a number, and the
\* transport answered
PullMergeAnswered ==
    /\ method = "MergePullRequest"
    /\ ~Blank(input.urlData, "repo")
    /\ ~Blank(input.urlData, "number")
    /\ ~input.rt.failed

\* C23 as stated: MergePullRequest has the merge three-way outcome: a 201
\* returns the decoded merge result with no error, a 204 a nil result with
\* no error, and a 409 or 404 a nil result with an error whose text is the
\* server-supplied message.
C23_PullMergeThreeWay ==
    PullMergeAnswered
        => LET res == input.rt.res
           IN  /\ (res.StatusCode = 201 /\ res.Body.readable /\ res.Body.json.kind = "object")
                      => (~output.result.nil /\ output.err.nil)
               /\ res.StatusCode = 204 => (output.result = Nil /\ output.err.nil)
               /\ (/\ res.StatusCode \in {409, 404}
                   /\ res.Body.readable
                   /\ res.Body.json.kind = "object"
                   /\ "message" \in DOMAIN res.Body.json.members)
                      => /\ output.result = Nil
                         /\ output.err = ErrorsNew(<<res.Body.json.members["message"]>>)

\* C23: MergePullRequest returns the decoded merge result with no error on a
\* 200 or a 405 response whose body is a JSON object; on every other status
\* (201, 204, 409 and 404 included) it returns a nil result and an error
\* that carries the response's status line.
C23_PullMergeDecodedOn200Or405 ==
    PullMergeAnswered
        => LET res == input.rt.res
           IN  /\ (res.StatusCode \in {200, 405} /\ res.Body.readable /\ res.Body.json.kind = "object")
                      => /\ output.result =
                                NonNil([f \in {"sha", "message"} |->
                                           IF f \in DOMAIN res.Body.json.members
                                           THEN res.Body.json.members[f] ELSE ""])
                         /\ output.err.nil
               /\ res.StatusCode \notin {200, 405}
                      => /\ output.result = Nil
                         /\ output.err = ErrorsNew(<<"Didn't receive 201 status from Github: ", res.Status>>)

\* a pull-request merge answered 405 with a message got that message
\* decoded, with no error
C23_Witness_NotMergeable ==
    /\ PullMergeAnswered
    /\ input.rt.res.StatusCode = 405
    /\ ~output.result.nil
    /\ output.result.val["message"] = "Merge conflict"
    /\ output.err.nil

\* C24: GetZip checks the response status like every other operation: it
\* returns (true, nil) only when the server answered with the expected
\* success status 200, and returns an error (not true) for any other status.
C24_GetZipChecksStatus ==
    (/\ method = "GetZip"
     /\ sent # <<>>
     /\ ~input.rt.failed)
        => /\ (output.result = Bool(TRUE) /\ output.err.nil) => input.rt.res.StatusCode = 200
           /\ input.rt.res.StatusCode # 200 => (output.result = Bool(FALSE) /\ ~output.err.nil)

----------------------------------------------------------------------------
(* The hand-written request bodies, read back by a JSON decoder for        *)
(* objects whose members are strings.                                      *)

Malformed == [ok |-> FALSE, val |-> <<>>, next |-> 0]

\* the first position of t at or after i that holds no JSON white space
RECURSIVE SkipSpace(_, _)
SkipSpace(t, i) ==
    IF i <= Len(t) /\ t[i] \in {" ", "\t", "\n", "\r"} THEN SkipSpace(t, i + 1) ELSE i

\* the string whose opening quote is just before position i of t: its
\* decoded text and the position after its closing quote
RECURSIVE ScanString(_, _, _)
ScanString(t, i, acc) ==
    IF i > Len(t) THEN Malformed
    ELSE IF t[i] = "\"" THEN [ok |-> TRUE, val |-> acc, next |-> i + 1]
    ELSE IF t[i] = "\\"
    THEN IF i + 1 <= Len(t) /\ t[i + 1] \in {"\"", "\\", "/"}
         THEN ScanString(t, i + 2, Append(acc, t[i + 1]))
         ELSE Malformed
    ELSE IF t[i] \in {"\n", "\t", "\r"} THEN Malformed
    ELSE ScanString(t, i + 1, Append(acc, t[i]))

\* the quoted string that starts at position i of t
QuotedAt(t, i) ==
    IF i <= Len(t) /\ t[i] = "\"" THEN ScanString(t, i + 1, <<>>) ELSE Malformed

\* the members of the object from position i of t, where a member name is
\* due, acc being the members read so far
RECURSIVE ScanMembers(_, _, _)
ScanMembers(t, i, acc) ==
    LET name == QuotedAt(t, i)
    IN  IF ~name.ok THEN Malformed
        ELSE LET colon == SkipSpace(t, name.next)
             IN  IF colon > Len(t) \/ t[colon] # ":" THEN Malformed
                 ELSE LET value == QuotedAt(t, SkipSpace(t, colon + 1))
                      IN  IF ~value.ok THEN Malformed
                          ELSE LET end     == SkipSpace(t, value.next)
                                   members == Append(acc, [name |-> name.val, value |-> value.val])
                               IN  IF end > Len(t) THEN Malformed
                                   ELSE IF t[end] = ","
                                   THEN ScanMembers(t, SkipSpace(t, end + 1), members)
                                   ELSE IF t[end] = "}" /\ SkipSpace(t, end + 1) = Len(t) + 1
                                   THEN [ok |-> TRUE, val |-> members, next |-> Len(t) + 1]
                                   ELSE Malformed

\* t as a JSON object of string members: whether it is one, and its members
\* in the order written
ParseObject(t) ==
    LET open == SkipSpace(t, 1)
    IN  IF open > Len(t) \/ t[open] # "{" THEN Malformed
        ELSE LET first == SkipSpace(t, open + 1)
             IN  IF first <= Len(t) /\ t[first] = "}" /\ SkipSpace(t, first + 1) = Len(t) + 1
                 THEN [ok |-> TRUE, val |-> <<>>, next |-> Len(t) + 1]
                 ELSE ScanMembers(t, first, <<>>)

\* the last call was a create method that sent its hand-written body
BodyWritten == method \in {"CreateIssueComment", "CreateKey", "CreateRepoKey"} /\ sent # <<>>

\* the members the caller of the last create method meant to send
Intended ==
    CASE method = "CreateIssueComment" ->
             <<[name |-> <<"b","o","d","y">>, value |-> TrimSpace(input.commentBody)]>>
      [] method = "CreateKey" ->
             <<[name |-> <<"k","e","y">>, value |-> input.key],
               [name |-> <<"t","i","t","l","e">>,
                value |-> IF input.title = <<>> THEN <<"C","o","d","e","H","u","b">> ELSE input.title]>>
      [] method = "CreateRepoKey" ->
             <<[name |-> <<"k","e","y">>, value |-> Lookup(input.key, "key")],
               [name |-> <<"t","i","t","l","e">>, value |-> Lookup(input.key, "title")]>>

\* some intended value holds a character of chars
SomeValueHolds(chars) ==
    \E i \in 1..Len(Intended) : \E j \in 1..Len(Intended[i].value) : Intended[i].value[j] \in chars

\* the body of the request, read back
SentObject == ParseObject(sent[1].body.text)

\* C25 as stated: the create methods insert the caller's values unescaped
\* into a hand-written JSON template, so for a value containing a double
\* quote the body is malformed JSON or contains fields the caller did not
\* supply; for values without quote, backslash or control characters the
\* body is the JSON object with exactly the intended fields.
C25_QuoteBreaksOrAddsFields ==
    BodyWritten
        => /\ SomeValueHolds({"\""})
                  => \/ ~SentObject.ok
                     \/ Len(SentObject.val) > Len(Intended)
                     \/ \E i \in 1..Len(SentObject.val) :
                            \A k \in 1..Len(Intended) : SentObject.val[i].name # Intended[k].name
           /\ ~SomeValueHolds({"\"", "\\", "\n", "\t", "\r"})
                  => (SentObject.ok /\ SentObject.val = Intended)

\* C25: for a value containing a double quote the body is not the JSON
\* encoding of the caller's values: it is malformed, or it holds other
\* members or other member values than the caller supplied; for values
\* without quote, backslash or control characters the body is the JSON
\* object with exactly the intended fields.
C25_QuoteChangesTheObject ==
    BodyWritten
        => /\ SomeValueHolds({"\""}) => (~SentObject.ok \/ SentObject.val # Intended)
           /\ ~SomeValueHolds({"\"", "\\", "\n", "\t", "\r"})
                  => (SentObject.ok /\ SentObject.val = Intended)

\* CreateKey was handed a key that closes its string and opens a member x,
\* and sent a well-formed object with three members
C25_Witness_InjectedMember ==
    /\ method = "CreateKey"
    /\ sent # <<>>
    /\ SomeValueHolds({"\""})
    /\ SentObject.ok
    /\ Len(SentObject.val) = 3
    /\ SentObject.val[2].name = <<"x">>

\* the last call was a milestone or comment method that got a 200 whose
\* body is a non-null JSON entity of the kind the method decodes
EntityReceived ==
    /\ method \in {"GetRepoMilestone", "GetIssueComment", "ListIssueComments"}
    /\ sent # <<>>
    /\ ~input.rt.failed
    /\ input.rt.res.StatusCode = 200
    /\ input.rt.res.Body.readable
    /\ IF method = "ListIssueComments"
       THEN /\ input.rt.res.Body.json.kind = "array"
            /\ input.rt.res.Body.json.elements # <<>>
       ELSE input.rt.res.Body.json.kind = "object"

\* C26: decoding terminates: for a response with the expected status whose
\* body is a non-null JSON milestone object or comment object (or a list of
\* them), the UnmarshalJSON of Milestone / Comment finishes and the method
\* returns the decoded entity.
C26_EntityDecodingTerminates ==
    EntityReceived
        => /\ ~output.panic
           /\ output.err.nil
           /\ ~output.result.nil

----------------------------------------------------------------------------
(* Properties of the travis-deps command.                                  *)

\* the requests main has issued so far, each with the dep it was issued for
Wire == program.wire

\* C27: main issues the GetRepoKeys requests in configuration order, at most
\* one request per dep, and after the first GetRepoKeys call that returns an
\* error it issues no request for any later dep.
C27_RequestsInOrderUntilFirstError ==
    /\ \A j, k \in 1..Len(Wire) : j < k => Wire[j].dep < Wire[k].dep
    /\ \A l \in 1..Len(program.log) :
           program.log[l].text = "GetRepoKeys failed:"
               => /\ program.pc = "returned"
                  /\ program.i = program.log[l].dep
                  /\ \A w \in 1..Len(Wire) : Wire[w].dep <= program.log[l].dep

\* the first of two well-formed deps was requested and refused, and main
\* returned without asking for the second
C27_Witness_StoppedAtFirstError ==
    /\ program.pc = "returned"
    /\ Len(program.Deps) = 2
    /\ Len(SplitN(program.Deps[2], "/", 2)) = 2
    /\ \E l \in 1..Len(program.log) :
           program.log[l] = [level |-> "warn", text |-> "GetRepoKeys failed:", dep |-> 1]
    /\ Len(Wire) = 1
    /\ Wire[1].dep = 1

\* repo is of the form owner/repo with a non-blank owner and a non-blank repo
OwnerSlashRepo(repo) ==
    LET parts == Split(repo, "/")
    IN  /\ Len(parts) = 2
        /\ TrimSpace(parts[1]) # <<>>
        /\ TrimSpace(parts[2]) # <<>>

\* C28: every dep entry that is not of the form owner/repo with a non-blank
\* owner and a non-blank repo is skipped as invalid: no request is made on
\* its behalf and the entries after it are still processed.
C28_MalformedDepsSkipped ==
    \A k \in 1..program.i :
        ~OwnerSlashRepo(program.Deps[k])
            => /\ \A w \in 1..Len(Wire) : Wire[w].dep # k
               /\ ~(program.pc = "returned" /\ program.i = k /\ k < Len(program.Deps))

----------------------------------------------------------------------------
(* Properties of CreateGist and of the body CreateFork posts.              *)

\* C29: CreateGist called with a gist that has no files returns the "There
\* are no files in your Gist" validation error without any network call,
\* and called with a gist that has at least one file it issues the
\* POST /gists request.
C29_CreateGistRequiresFiles ==
    method = "CreateGist"
        => IF DOMAIN input.postGist.Files = {}
           THEN /\ sent = <<>>
                /\ output.err = ErrorsNew(<<"There are no files in your Gist. Please add a file to your Gist.">>)
           ELSE /\ Len(sent) = 1
                /\ sent[1].verb = "POST"
                /\ sent[1].url = createUrl(Token, <<"/","g","i","s","t","s">>)

\* C30: CreateFork: when the org argument is non-empty, the request body's
\* organization field equals that org argument; when org is empty, the
\* request is sent without a body.
C30_ForkBodyCarriesOrg ==
    method = "CreateFork" /\ sent # <<>>
        => IF input.org # <<>>
           THEN /\ sent[1].body # Nil
                /\ sent[1].body.members.organization = input.org
           ELSE sent[1].body = Nil

====
